---- MODULE Spec2Model ----
(***************************************************************************)
(* Workflow graph engine of excel-workflow-tool (src/src/workflow/engine.py)*)
(* with the node contract of src/src/nodes/base_node.py and the registry   *)
(* of src/src/nodes/node_registry.py.                                       *)
(*                                                                          *)
(* The Workflow object is the state: the node dict (kept as a sequence in   *)
(* insertion order, as a Python dict iterates), the connection list, the    *)
(* id counter and the global parameters.  A node carries its type, its      *)
(* position, its config.params and the context set_context left on it.  A   *)
(* run of execute()/execute_node() is a frame `run` that advances one loop  *)
(* iteration per step; the calls it makes on the nodes (set_context,        *)
(* validate, execute) are logged in `calls`, and what the caller of the     *)
(* last operation received (a return value or an exception) is `outcome`.   *)
(*                                                                          *)
(* Spec is the graph engine: building, wiring, running, saving.  SpecSaved  *)
(* is the workflow with positions, parameters and round trips through a     *)
(* file; SpecContext the workflow whose parameters change between and       *)
(* during runs and are read with get_param.  SpecRuns runs workflows again  *)
(* and again, also workflows opened from a file written elsewhere.          *)
(* SpecSteps takes the loop of a run apart into the lookup of a step and    *)
(* the rest of its body, with steps deleted by the user while the progress  *)
(* callback processes events.  SpecLoops takes the while loops of           *)
(* get_ancestors and get_execution_order apart into turns and states that   *)
(* a statement in progress does run.                                        *)
(***************************************************************************)
EXTENDS Integers, Sequences, FiniteSets, TLC

\* ------------------------------------------------------------------ bounds
\* size of the workflows explored: ids minted by generate_node_id plus
\* connections held in Workflow.connections
MaxSize == 5

\* size of the workflows explored with positions, parameters and round trips
MaxSaved == 3

\* size of the workflows explored with parameters changing between and
\* during runs
MaxContext == 2

\* size of the workflows explored with files opened from outside and the
\* progress callback observed
MaxRuns == 3

\* size of the workflows run step by step, with steps deleted during a run
MaxSteps == 3


\* size of the workflows whose loops are run turn by turn
MaxLoops == 4


\* --------------------------------------------------------------- variables
VARIABLES
    nodes,          \* Workflow.nodes: sequence of node records, dict order
    connections,    \* Workflow.connections: sequence of Connection records
    node_counter,   \* Workflow._node_counter
    global_params,  \* Workflow.global_params: dict of the user's parameters
    run,            \* frame of the run in progress (locals of execute/execute_node)
    calls,          \* calls made on nodes by the current or last run
    outcome         \* what the caller of the last operation received

vars == <<nodes, connections, node_counter, global_params, run, calls, outcome>>

\* ------------------------------------------------------ nodes and registry
\* ReadExcelNode._setup_ports, MergeDataNode._setup_ports, DataPreviewNode._setup_ports
InputPorts(node_type) ==
    CASE node_type = "read_excel"   -> <<>>
      [] node_type = "merge_data"   -> <<"left", "right">>
      [] node_type = "data_preview" -> <<"data">>
      [] OTHER                      -> <<>>

OutputPorts(node_type) ==
    CASE node_type = "read_excel"   -> <<"data">>
      [] node_type = "merge_data"   -> <<"data">>
      [] node_type = "data_preview" -> <<>>
      [] OTHER                      -> <<>>

\* NodeRegistry._nodes after the @register_node decorators have run
RegisteredTypes == {"read_excel", "merge_data", "data_preview"}

\* type names a caller may pass to add_node; "no_such_type" is not registered
RequestedTypes == RegisteredTypes \cup {"no_such_type"}

\* port names a caller may pass to add_connection
PortNames == {"data", "left", "right"}

\* ------------------------------------------------------- values and dicts
\* a Python str is the sequence of its characters; values of other types
\* carry their type as the field name
StrVal(s) == [str |-> s]
NumVal(n) == [num |-> n]
NoneVal == [none |-> TRUE]
PyTuple(items) == [tuple |-> items]
PyList(items) == [list |-> items]

isinstance_str(val) == "str" \in DOMAIN val

\* a dict of parameters is the sequence of its items in insertion order
EmptyDict == <<>>

\* d.get(key, default)
DictGet(d, key, default) ==
    IF \E k \in DOMAIN d : d[k].key = key
    THEN d[CHOOSE k \in DOMAIN d : d[k].key = key].value
    ELSE default

\* d[key] = value : an existing key keeps its place, a new key goes last
DictPut(d, key, value) ==
    IF \E k \in DOMAIN d : d[k].key = key
    THEN [k \in DOMAIN d |-> IF d[k].key = key THEN [key |-> key, value |-> value] ELSE d[k]]
    ELSE Append(d, [key |-> key, value |-> value])

\* BaseNode.__init__: no parameters, position (0, 0), empty context
BaseNode(node_type, node_id) ==
    [node_id |-> node_id, node_type |-> node_type,
     position |-> PyTuple(<<0, 0>>), config |-> EmptyDict, context |-> EmptyDict]

\* a registry that builds a plain node for a type it does not know
create_node_anytype(node_type, node_id) ==
    [ok |-> TRUE, node |-> BaseNode(node_type, node_id)]

\* NodeRegistry.create_node: the node, or the ValueError for an unknown type
create_node(node_type, node_id) ==
    IF node_type \in RegisteredTypes
    THEN [ok |-> TRUE, node |-> BaseNode(node_type, node_id)]
    ELSE [ok |-> FALSE, exc |-> "ValueError"]

\* BaseNode.get_input_port / get_output_port, as the truth value the engine tests
get_input_port(node, name) ==
    \E k \in DOMAIN InputPorts(node.node_type) : InputPorts(node.node_type)[k] = name

\* a lookup of an output port that also finds the input ports
get_output_port_anyport(node, name) ==
    \/ \E k \in DOMAIN OutputPorts(node.node_type) : OutputPorts(node.node_type)[k] = name
    \/ \E k \in DOMAIN InputPorts(node.node_type) : InputPorts(node.node_type)[k] = name

get_output_port(node, name) ==
    \E k \in DOMAIN OutputPorts(node.node_type) : OutputPorts(node.node_type)[k] = name

\* ------------------------------------------------- the node dict, as a dict
NodeIds == {nodes[k].node_id : k \in DOMAIN nodes}

NodeOf(node_id) == nodes[CHOOSE k \in DOMAIN nodes : nodes[k].node_id = node_id]

\* self.nodes[node_id] = node : an existing key keeps its place, a new key goes last
DictSet(d, node) ==
    IF \E k \in DOMAIN d : d[k].node_id = node.node_id
    THEN [k \in DOMAIN d |-> IF d[k].node_id = node.node_id THEN node ELSE d[k]]
    ELSE Append(d, node)

\* del self.nodes[node_id]
DictDel(d, node_id) == SelectSeq(d, LAMBDA n : n.node_id # node_id)

\* ids in dict iteration order
KeyOrder == [k \in DOMAIN nodes |-> nodes[k].node_id]

\* -------------------------------------------------------------- run frame
IdleRun == [pc |-> "idle"]

\* an operation that hands its outcome to the caller and stays in its loop
Finished_resumable(frame) == [frame EXCEPT !.pc = "executing"]

\* the call has returned or raised: the frame as it was left, its caller holds `outcome`
Finished(frame) == [frame EXCEPT !.pc = "finished"]

Idle == run.pc = "idle"

NoCalls == <<>>

NoOutcome == [op |-> "none", kind |-> "return"]

\* a mutation operation has returned to its caller
Edited == [pc |-> "finished", mode |-> "edit"]

\* ------------------------------------------------------------------- Init
Init ==
    /\ nodes = <<>>
    /\ connections = <<>>
    /\ node_counter = 0
    /\ global_params = EmptyDict
    /\ run = IdleRun
    /\ calls = NoCalls
    /\ outcome = NoOutcome

\* ------------------------------------------------------ mutation operations
\* an add_node that gives the id back when the registry raises
add_node_rollback(node_type, position) ==
    /\ Idle
    /\ node_counter + Len(connections) < MaxSize
    /\ LET node_id == node_counter + 1
           made    == create_node(node_type, node_id)
       IN  IF made.ok
           THEN /\ node_counter' = node_id
                /\ nodes' = DictSet(nodes, [made.node EXCEPT !.position = position])
                /\ outcome' = [op |-> "add_node", kind |-> "return",
                               node_type |-> node_type, node_id |-> node_id]
           ELSE /\ node_counter' = node_counter
                /\ nodes' = nodes
                /\ outcome' = [op |-> "add_node", kind |-> "raise",
                               node_type |-> node_type, exc |-> made.exc]
    /\ calls' = NoCalls
    /\ run' = Edited
    /\ UNCHANGED <<connections, global_params>>

\* Workflow.add_node (with generate_node_id)
add_node(node_type, position) ==
    /\ Idle
    /\ node_counter + Len(connections) < MaxSize
    /\ LET node_id == node_counter + 1
           made    == create_node(node_type, node_id)
       IN  /\ node_counter' = node_id
           /\ IF made.ok
              THEN /\ nodes' = DictSet(nodes, [made.node EXCEPT !.position = position])
                   /\ outcome' = [op |-> "add_node", kind |-> "return",
                                  node_type |-> node_type, node_id |-> node_id]
              ELSE /\ nodes' = nodes
                   /\ outcome' = [op |-> "add_node", kind |-> "raise",
                                  node_type |-> node_type, exc |-> made.exc]
    /\ calls' = NoCalls
    /\ run' = Edited
    /\ UNCHANGED <<connections, global_params>>

\* remove_node that only looks at the source end of a connection
ConnectionsWithout_source(conns, node_id) ==
    SelectSeq(conns, LAMBDA c : c.from_node # node_id)

\* remove_node that keeps a connection unless both ends are node_id
ConnectionsWithout_either(conns, node_id) ==
    SelectSeq(conns, LAMBDA c : c.from_node # node_id \/ c.to_node # node_id)

\* the list comprehension of remove_node: the connections not involving node_id
ConnectionsWithout(conns, node_id) ==
    SelectSeq(conns, LAMBDA c : c.from_node # node_id /\ c.to_node # node_id)

\* Workflow.remove_node
remove_node(node_id) ==
    /\ Idle
    /\ IF node_id \in NodeIds
       THEN /\ connections' = ConnectionsWithout(connections, node_id)
            /\ nodes' = DictDel(nodes, node_id)
       ELSE UNCHANGED <<nodes, connections>>
    /\ outcome' = [op |-> "remove_node", kind |-> "return", node_id |-> node_id,
                   existed |-> (node_id \in NodeIds),
                   dropped |-> Len(connections) - Len(connections')]
    /\ calls' = NoCalls
    /\ run' = Edited
    /\ UNCHANGED <<node_counter, global_params>>

\* a search for the existing connection that compares the port name only
FirstInto_port(conns, to_node, to_port) ==
    IF \E k \in DOMAIN conns : conns[k].to_port = to_port
    THEN CHOOSE k \in DOMAIN conns :
            /\ conns[k].to_port = to_port
            /\ \A j \in 1..(k-1) : conns[j].to_port # to_port
    ELSE 0

\* index of the first connection into (to_node, to_port), 0 when there is none
FirstInto(conns, to_node, to_port) ==
    IF \E k \in DOMAIN conns : conns[k].to_node = to_node /\ conns[k].to_port = to_port
    THEN CHOOSE k \in DOMAIN conns :
            /\ conns[k].to_node = to_node /\ conns[k].to_port = to_port
            /\ \A j \in 1..(k-1) : ~(conns[j].to_node = to_node /\ conns[j].to_port = to_port)
    ELSE 0

\* list.remove of the element at index k
RemoveAt(s, k) == [j \in 1..(Len(s)-1) |-> IF j < k THEN s[j] ELSE s[j+1]]

\* add_connection that never looks for a connection already at the input port
DropExisting_keep(conns, to_node, to_port) == conns

\* the loop of add_connection that drops the first connection into the input port
DropExisting(conns, to_node, to_port) ==
    LET k == FirstInto(conns, to_node, to_port)
    IN  IF k = 0 THEN conns ELSE RemoveAt(conns, k)

\* return None of add_connection: the caller is not told which test failed
Rejected == [op |-> "add_connection", kind |-> "return", ret |-> "None"]

\* an add_connection that refuses to wire a step to itself
add_connection_noself(from_node, from_port, to_node, to_port) ==
    /\ Idle
    /\ IF from_node \notin NodeIds \/ to_node \notin NodeIds \/ from_node = to_node
       THEN /\ outcome' = Rejected
            /\ UNCHANGED connections
       ELSE IF ~get_output_port(NodeOf(from_node), from_port)
       THEN /\ outcome' = Rejected
            /\ UNCHANGED connections
       ELSE IF ~get_input_port(NodeOf(to_node), to_port)
       THEN /\ outcome' = Rejected
            /\ UNCHANGED connections
       ELSE LET kept == DropExisting(connections, to_node, to_port)
                conn == [from_node |-> from_node, from_port |-> from_port,
                         to_node |-> to_node, to_port |-> to_port]
            IN  /\ node_counter + Len(kept) < MaxSize
                /\ connections' = Append(kept, conn)
                /\ outcome' = [op |-> "add_connection", kind |-> "return",
                               ret |-> "Connection", conn |-> conn,
                               replaced |-> (Len(kept) < Len(connections))]
    /\ calls' = NoCalls
    /\ run' = Edited
    /\ UNCHANGED <<nodes, node_counter, global_params>>


\* Workflow.add_connection
add_connection(from_node, from_port, to_node, to_port) ==
    /\ Idle
    /\ IF from_node \notin NodeIds \/ to_node \notin NodeIds
       THEN /\ outcome' = Rejected
            /\ UNCHANGED connections
       ELSE IF ~get_output_port(NodeOf(from_node), from_port)
       THEN /\ outcome' = Rejected
            /\ UNCHANGED connections
       ELSE IF ~get_input_port(NodeOf(to_node), to_port)
       THEN /\ outcome' = Rejected
            /\ UNCHANGED connections
       ELSE LET kept == DropExisting(connections, to_node, to_port)
                conn == [from_node |-> from_node, from_port |-> from_port,
                         to_node |-> to_node, to_port |-> to_port]
            IN  /\ node_counter + Len(kept) < MaxSize
                /\ connections' = Append(kept, conn)
                /\ outcome' = [op |-> "add_connection", kind |-> "return",
                               ret |-> "Connection", conn |-> conn,
                               replaced |-> (Len(kept) < Len(connections))]
    /\ calls' = NoCalls
    /\ run' = Edited
    /\ UNCHANGED <<nodes, node_counter, global_params>>

\* Workflow.remove_connection with a Connection object that is in the list
\* (membership is object identity: Connection defines no __eq__)
remove_connection(k) ==
    /\ Idle
    /\ k \in DOMAIN connections
    /\ connections' = RemoveAt(connections, k)
    /\ outcome' = [op |-> "remove_connection", kind |-> "return", found |-> TRUE]
    /\ calls' = NoCalls
    /\ run' = Edited
    /\ UNCHANGED <<nodes, node_counter, global_params>>

\* a remove_connection that takes the newest connection when it does not find
\* the one it was given
remove_connection_absent_pop ==
    /\ Idle
    /\ connections' = SubSeq(connections, 1, Len(connections) - 1)
    /\ outcome' = [op |-> "remove_connection", kind |-> "return", found |-> FALSE]
    /\ calls' = NoCalls
    /\ run' = Edited
    /\ UNCHANGED <<nodes, node_counter, global_params>>

\* Workflow.remove_connection with a Connection object that is not in the list
remove_connection_absent ==
    /\ Idle
    /\ outcome' = [op |-> "remove_connection", kind |-> "return", found |-> FALSE]
    /\ calls' = NoCalls
    /\ run' = Edited
    /\ UNCHANGED <<nodes, connections, node_counter, global_params>>

\* ------------------------------------------------------- execution order
\* a loop that passes over a connection naming an id that is not a key
RECURSIVE BuildGraph_skip(_, _, _, _)
BuildGraph_skip(conns, k, in_degree, adjacency) ==
    IF k > Len(conns)
    THEN [ok |-> TRUE, in_degree |-> in_degree, adjacency |-> adjacency]
    ELSE LET conn == conns[k]
         IN  IF conn.from_node \notin DOMAIN adjacency \/ conn.to_node \notin DOMAIN in_degree
             THEN BuildGraph_skip(conns, k + 1, in_degree, adjacency)
             ELSE BuildGraph_skip(conns, k + 1,
                      [in_degree EXCEPT ![conn.to_node] = @ + 1],
                      [adjacency EXCEPT ![conn.from_node] = Append(@, conn.to_node)])

\* the loop of get_execution_order that fills in_degree and adjacency; a
\* connection naming an id that is not a key raises KeyError
RECURSIVE BuildGraph(_, _, _, _)
BuildGraph(conns, k, in_degree, adjacency) ==
    IF k > Len(conns)
    THEN [ok |-> TRUE, in_degree |-> in_degree, adjacency |-> adjacency]
    ELSE LET conn == conns[k]
         IN  IF conn.from_node \notin DOMAIN adjacency \/ conn.to_node \notin DOMAIN in_degree
             THEN [ok |-> FALSE, exc |-> "KeyError"]
             ELSE BuildGraph(conns, k + 1,
                      [in_degree EXCEPT ![conn.to_node] = @ + 1],
                      [adjacency EXCEPT ![conn.from_node] = Append(@, conn.to_node)])

\* the for loop over adjacency[node_id] inside Kahn's loop
RECURSIVE Relax(_, _, _, _)
Relax(neighbors, k, in_degree, queue) ==
    IF k > Len(neighbors)
    THEN [in_degree |-> in_degree, queue |-> queue]
    ELSE LET neighbor == neighbors[k]
             deg      == in_degree[neighbor] - 1
         IN  Relax(neighbors, k + 1,
                   [in_degree EXCEPT ![neighbor] = deg],
                   IF deg = 0 THEN Append(queue, neighbor) ELSE queue)

\* a Kahn loop that takes the newest ready node (queue.pop()) first
RECURSIVE KahnLoop_stack(_, _, _, _)
KahnLoop_stack(queue, result, in_degree, adjacency) ==
    IF queue = <<>>
    THEN result
    ELSE LET node_id == queue[Len(queue)]
             after   == Relax(adjacency[node_id], 1, in_degree,
                              SubSeq(queue, 1, Len(queue) - 1))
         IN  KahnLoop_stack(after.queue, Append(result, node_id), after.in_degree, adjacency)

\* the while loop of Kahn's algorithm
RECURSIVE KahnLoop(_, _, _, _)
KahnLoop(queue, result, in_degree, adjacency) ==
    IF queue = <<>>
    THEN result
    ELSE LET node_id == Head(queue)
             after   == Relax(adjacency[node_id], 1, in_degree, Tail(queue))
         IN  KahnLoop(after.queue, Append(result, node_id), after.in_degree, adjacency)

\* get_execution_order that returns the ids in dict order, unsorted
get_execution_order_unsorted(ns, conns) ==
    [ok |-> TRUE, order |-> [k \in DOMAIN ns |-> ns[k].node_id]]

\* get_execution_order without the final length test
get_execution_order_unchecked(ns, conns) ==
    LET ids   == {ns[k].node_id : k \in DOMAIN ns}
        keys  == [k \in DOMAIN ns |-> ns[k].node_id]
        graph == BuildGraph(conns, 1, [id \in ids |-> 0], [id \in ids |-> <<>>])
    IN  IF ~graph.ok
        THEN graph
        ELSE LET queue == SelectSeq(keys, LAMBDA id : graph.in_degree[id] = 0)
             IN  [ok |-> TRUE,
                  order |-> KahnLoop(queue, <<>>, graph.in_degree, graph.adjacency)]

\* Workflow.get_execution_order on node dict ns and connection list conns
get_execution_order(ns, conns) ==
    LET ids   == {ns[k].node_id : k \in DOMAIN ns}
        keys  == [k \in DOMAIN ns |-> ns[k].node_id]
        graph == BuildGraph(conns, 1, [id \in ids |-> 0], [id \in ids |-> <<>>])
    IN  IF ~graph.ok
        THEN graph
        ELSE LET queue  == SelectSeq(keys, LAMBDA id : graph.in_degree[id] = 0)
                 result == KahnLoop(queue, <<>>, graph.in_degree, graph.adjacency)
             IN  IF Len(result) # Len(ns)
                 THEN [ok |-> FALSE, exc |-> "ValueError"]
                 ELSE [ok |-> TRUE, order |-> result]

\* ---------------------------------------------------------------- ancestors
\* the scan of get_ancestors that records a source but never queues it
RECURSIVE AncestorScan_unqueued(_, _, _, _, _, _)
AncestorScan_unqueued(conns, k, current, queue, visited, ancestors) ==
    IF k > Len(conns)
    THEN [queue |-> queue, visited |-> visited, ancestors |-> ancestors]
    ELSE LET conn == conns[k]
         IN  IF conn.to_node = current /\ conn.from_node \notin visited
             THEN AncestorScan_unqueued(conns, k + 1, current, queue,
                                        visited \cup {conn.from_node},
                                        ancestors \cup {conn.from_node})
             ELSE AncestorScan_unqueued(conns, k + 1, current, queue, visited, ancestors)

\* the scan of get_ancestors without the test on visited
RECURSIVE AncestorScan_revisit(_, _, _, _, _, _)
AncestorScan_revisit(conns, k, current, queue, visited, ancestors) ==
    IF k > Len(conns)
    THEN [queue |-> queue, visited |-> visited, ancestors |-> ancestors]
    ELSE LET conn == conns[k]
         IN  IF conn.to_node = current
             THEN AncestorScan_revisit(conns, k + 1, current,
                                       Append(queue, conn.from_node),
                                       visited \cup {conn.from_node},
                                       ancestors \cup {conn.from_node})
             ELSE AncestorScan_revisit(conns, k + 1, current, queue, visited, ancestors)

\* the for loop over self.connections inside get_ancestors
RECURSIVE AncestorScan(_, _, _, _, _, _)
AncestorScan(conns, k, current, queue, visited, ancestors) ==
    IF k > Len(conns)
    THEN [queue |-> queue, visited |-> visited, ancestors |-> ancestors]
    ELSE LET conn == conns[k]
         IN  IF conn.to_node = current /\ conn.from_node \notin visited
             THEN AncestorScan(conns, k + 1, current,
                               Append(queue, conn.from_node),
                               visited \cup {conn.from_node},
                               ancestors \cup {conn.from_node})
             ELSE AncestorScan(conns, k + 1, current, queue, visited, ancestors)

\* the while loop of get_ancestors
RECURSIVE AncestorLoop(_, _, _, _)
AncestorLoop(conns, queue, visited, ancestors) ==
    IF queue = <<>>
    THEN ancestors
    ELSE LET after == AncestorScan(conns, 1, Head(queue), Tail(queue), visited, ancestors)
         IN  AncestorLoop(conns, after.queue, after.visited, after.ancestors)

\* get_ancestors that stops at the direct sources of node_id
get_ancestors_parents(conns, node_id) ==
    {conns[k].from_node : k \in {j \in DOMAIN conns : conns[j].to_node = node_id}} \ {node_id}

\* Workflow.get_ancestors
get_ancestors(conns, node_id) == AncestorLoop(conns, <<node_id>>, {node_id}, {})

\* ------------------------------------------------------------ running nodes
EmptyMap == [k \in {} |-> 0]

\* d[k] = v on a dict
MapPut(d, k, v) == [x \in DOMAIN d \cup {k} |-> IF x = k THEN v ELSE d[x]]

\* a collecting loop that takes every connection whose source has an output,
\* whichever node it leads to
RECURSIVE GatherInputs_anytarget(_, _, _, _, _)
GatherInputs_anytarget(conns, k, node_id, node_outputs, input_data) ==
    IF k > Len(conns)
    THEN input_data
    ELSE LET conn == conns[k]
             source_outputs == IF conn.from_node \in DOMAIN node_outputs
                               THEN node_outputs[conn.from_node] ELSE EmptyMap
         IN  IF conn.from_port \in DOMAIN source_outputs
             THEN GatherInputs_anytarget(conns, k + 1, node_id, node_outputs,
                               MapPut(input_data, conn.to_port, source_outputs[conn.from_port]))
             ELSE GatherInputs_anytarget(conns, k + 1, node_id, node_outputs, input_data)

\* the loop of execute/execute_node that collects input_data for node_id
RECURSIVE GatherInputs(_, _, _, _, _)
GatherInputs(conns, k, node_id, node_outputs, input_data) ==
    IF k > Len(conns)
    THEN input_data
    ELSE LET conn == conns[k]
             source_outputs == IF conn.from_node \in DOMAIN node_outputs
                               THEN node_outputs[conn.from_node] ELSE EmptyMap
         IN  IF conn.to_node = node_id /\ conn.from_port \in DOMAIN source_outputs
             THEN GatherInputs(conns, k + 1, node_id, node_outputs,
                               MapPut(input_data, conn.to_port, source_outputs[conn.from_port]))
             ELSE GatherInputs(conns, k + 1, node_id, node_outputs, input_data)

\* a payload (a DataFrame in the source) is a number here; the payload a node
\* returns depends on the node and on every input it received, by port
PortWeight(port) ==
    CASE port = "left" -> 1 [] port = "right" -> 2 [] OTHER -> 3

RECURSIVE InputSum(_, _)
InputSum(input_data, ports) ==
    IF ports = {} THEN 0
    ELSE LET p == CHOOSE q \in ports : TRUE
         IN  PortWeight(p) * input_data[p] + InputSum(input_data, ports \ {p})

Payload(node, input_data) == node.node_id + 10 * InputSum(input_data, DOMAIN input_data)

\* the value a node's execute returns when it does not raise:
\* ReadExcelNode.execute and MergeDataNode.execute return {"data": ...},
\* DataPreviewNode.execute returns {}
NodeExecute(node, input_data) ==
    CASE node.node_type = "read_excel"   -> MapPut(EmptyMap, "data", Payload(node, input_data))
      [] node.node_type = "merge_data"   -> MapPut(EmptyMap, "data", Payload(node, input_data))
      [] node.node_type = "data_preview" -> EmptyMap
      [] OTHER                           -> EmptyMap

\* node_name of the node classes (ReadExcelNode, MergeDataNode, DataPreviewNode)
node_name(node) ==
    CASE node.node_type = "read_excel"   -> "ReadExcel"
      [] node.node_type = "merge_data"   -> "MergeData"
      [] node.node_type = "data_preview" -> "DataPreview"
      [] OTHER                           -> "BaseNode"

\* a call the loop makes, as the log keeps it; the entry of a call on a node
\* also keeps the context the node holds when called, and what the call
\* received (execute) or answered (validate)
Call(name, node_id) == [call |-> name, node_id |-> node_id]

\* a total that counts every step of the workflow, in the run or not
total_nodes_workflow(execution_order) == Len(nodes)

\* total_nodes = len(execution_order)
total_nodes(execution_order) == Len(execution_order)

\* progress_callback(i + 1, total_nodes, node.node_name, node_id), as the log
\* keeps it; index is i + 1 of enumerate, the place of the node in the order
progress_callback(index, total, name, node_id) ==
    [call |-> "progress", node_id |-> node_id, index |-> index, total |-> total,
     node_name |-> name]

\* a set_context that leaves the node with the context it had
set_context_ignored(node, context) == node

\* BaseNode.set_context
set_context(node, context) == [node EXCEPT !.context = context]

\* a failed validate that is passed over: the loop goes on with the next node
ValidationFailure_skip(frame, log, node) ==
    [frame |-> [frame EXCEPT !.i = @ + 1], calls |-> log, exc |-> "none",
     node_id |-> node.node_id, node |-> node]

\* if not is_valid: raise ValueError(f"Node '{node.node_name}' ({node_id}): {error}")
ValidationFailure(frame, log, node) ==
    [frame |-> frame, calls |-> log, exc |-> "ValueError",
     msg |-> [node_name |-> node_name(node), node_id |-> node.node_id],
     node_id |-> node.node_id, node |-> node]

\* a loop body that records a failed execute and goes on with the next node
Iteration_continue(frame, log, valid, raises) ==
    LET node_id    == frame.execution_order[frame.i]
        node       == set_context(NodeOf(node_id), global_params)
        input_data == GatherInputs(connections, 1, node_id, frame.node_outputs, EmptyMap)
        output     == NodeExecute(node, input_data)
        upto_valid == log \o <<[call |-> "set_context", node_id |-> node_id,
                                context |-> global_params],
                               [call |-> "validate", node_id |-> node_id,
                                context |-> node.context, valid |-> valid]>>
        executing  == [call |-> "execute", node_id |-> node_id,
                       context |-> node.context, input_data |-> input_data]
    IN  IF ~valid
        THEN ValidationFailure(frame, upto_valid, node)
        ELSE IF raises
        THEN [frame |-> [frame EXCEPT
                            !.results = MapPut(@, node_id, [success |-> FALSE, error |-> "str(e)"]),
                            !.i = @ + 1],
              calls |-> Append(upto_valid, executing),
              exc |-> "none", node_id |-> node_id, node |-> node]
        ELSE [frame |-> [frame EXCEPT
                            !.node_outputs = MapPut(@, node_id, output),
                            !.results = MapPut(@, node_id, [success |-> TRUE, output |-> output]),
                            !.i = @ + 1],
              calls |-> upto_valid \o
                  <<executing,
                    progress_callback(frame.i, total_nodes(frame.execution_order),
                                      node_name(node), node_id)>>,
              exc |-> "none", node_id |-> node_id, node |-> node]

\* one iteration of the for loop of execute / execute_node on frame with call
\* log `log`; valid is what node.validate() answers, raises whether
\* node.execute() raises.  exc is the exception that leaves the loop, if any,
\* msg what its message names, node the node as set_context left it.
\* What validate and execute make of the context is the choice of valid and
\* raises.  The progress callback is the one the callers in main_window.py
\* always pass; it is logged after each node that executed.
Iteration(frame, log, valid, raises) ==
    LET node_id    == frame.execution_order[frame.i]
        node       == set_context(NodeOf(node_id), global_params)
        input_data == GatherInputs(connections, 1, node_id, frame.node_outputs, EmptyMap)
        output     == NodeExecute(node, input_data)
        upto_valid == log \o <<[call |-> "set_context", node_id |-> node_id,
                                context |-> global_params],
                               [call |-> "validate", node_id |-> node_id,
                                context |-> node.context, valid |-> valid]>>
        executing  == [call |-> "execute", node_id |-> node_id,
                       context |-> node.context, input_data |-> input_data]
    IN  IF ~valid
        THEN ValidationFailure(frame, upto_valid, node)
        ELSE IF raises
        THEN [frame |-> [frame EXCEPT !.results =
                            MapPut(@, node_id, [success |-> FALSE, error |-> "str(e)"])],
              calls |-> Append(upto_valid, executing),
              exc |-> "RuntimeError", msg |-> [node_name |-> node_name(node)],
              node_id |-> node_id, node |-> node]
        ELSE [frame |-> [frame EXCEPT
                            !.node_outputs = MapPut(@, node_id, output),
                            !.results = MapPut(@, node_id, [success |-> TRUE, output |-> output]),
                            !.i = @ + 1],
              calls |-> upto_valid \o
                  <<executing,
                    progress_callback(frame.i, total_nodes(frame.execution_order),
                                      node_name(node), node_id)>>,
              exc |-> "none", node_id |-> node_id, node |-> node]

Running(mode) == run.pc = "executing" /\ run.mode = mode

\* the loop body as a step of the run in progress
LoopBody(valid, raises) ==
    LET it == Iteration(run, calls, valid, raises)
    IN  /\ calls' = it.calls
        /\ nodes' = DictSet(nodes, it.node)
        /\ IF it.exc = "none"
           THEN /\ run' = [it.frame EXCEPT !.pc = "executing"]
                /\ UNCHANGED outcome
           ELSE /\ run' = Finished(it.frame)
                /\ outcome' = [op |-> run.mode, target |-> run.target, kind |-> "raise",
                               exc |-> it.exc, msg |-> it.msg, node_id |-> it.node_id]

\* a frame that starts with an output for every step of the order, as a run
\* before it would have left them
Frame_kept(mode, target, order) ==
    [pc |-> "executing", mode |-> mode, target |-> target,
     execution_order |-> order, i |-> 1,
     node_outputs |-> [n \in {order[k] : k \in DOMAIN order} |->
                          NodeExecute(NodeOf(n), EmptyMap)],
     results |-> EmptyMap]

Frame(mode, target, order) ==
    [pc |-> "executing", mode |-> mode, target |-> target,
     execution_order |-> order, i |-> 1,
     node_outputs |-> EmptyMap, results |-> EmptyMap]

Pending(op, target) == [op |-> op, target |-> target, kind |-> "pending"]

\* a run that raised before its loop: no node was reached (node_id 0)
Structural(op, target, exc) ==
    [op |-> op, target |-> target, kind |-> "raise", exc |-> exc, node_id |-> 0]

\* the ids of S in ascending order
RECURSIVE Ascending(_)
Ascending(S) ==
    IF S = {} THEN <<>>
    ELSE LET m == CHOOSE x \in S : \A y \in S : x <= y
         IN  <<m>> \o Ascending(S \ {m})

\* execute_node that visits nodes_to_execute by id instead of filtering the order
RestrictOrder_byid(full_order, nodes_to_execute) == Ascending(nodes_to_execute)

\* the list comprehension of execute_node that filters the full order
RestrictOrder(full_order, nodes_to_execute) ==
    SelectSeq(full_order, LAMBDA nid : nid \in nodes_to_execute)

\* Workflow.execute up to the loop: get_execution_order and the empty maps
execute_order ==
    /\ LET ord == get_execution_order(nodes, connections)
       IN  IF ord.ok
           THEN /\ run' = Frame("execute", 0, ord.order)
                /\ outcome' = Pending("execute", 0)
           ELSE /\ run' = Finished(Frame("execute", 0, <<>>))
                /\ outcome' = Structural("execute", 0, ord.exc)
    /\ calls' = NoCalls
    /\ UNCHANGED <<nodes, connections, node_counter, global_params>>

\* Workflow.execute called from the event loop
execute_begin == Idle /\ execute_order

\* the for loop of Workflow.execute, one iteration
execute_iteration ==
    /\ Running("execute")
    /\ run.i <= Len(run.execution_order)
    /\ \E valid \in BOOLEAN, raises \in BOOLEAN : LoopBody(valid, raises)
    /\ UNCHANGED <<connections, node_counter, global_params>>

\* return results of Workflow.execute
execute_return ==
    /\ Running("execute")
    /\ run.i > Len(run.execution_order)
    /\ outcome' = [op |-> "execute", target |-> 0, kind |-> "return", results |-> run.results]
    /\ run' = Finished(run)
    /\ UNCHANGED <<nodes, connections, node_counter, global_params, calls>>

\* Workflow.execute_node up to the loop
execute_node_order(target_node_id) ==
    /\ IF target_node_id \notin NodeIds
       THEN /\ run' = Finished(Frame("execute_node", target_node_id, <<>>))
            /\ outcome' = Structural("execute_node", target_node_id, "ValueError")
       ELSE LET nodes_to_execute == get_ancestors(connections, target_node_id)
                                        \cup {target_node_id}
                full_order == get_execution_order(nodes, connections)
            IN  IF full_order.ok
                THEN /\ run' = Frame("execute_node", target_node_id,
                                     RestrictOrder(full_order.order, nodes_to_execute))
                     /\ outcome' = Pending("execute_node", target_node_id)
                ELSE /\ run' = Finished(Frame("execute_node", target_node_id, <<>>))
                     /\ outcome' = Structural("execute_node", target_node_id, full_order.exc)
    /\ calls' = NoCalls
    /\ UNCHANGED <<nodes, connections, node_counter, global_params>>

\* Workflow.execute_node called from the event loop
execute_node_begin(target_node_id) == Idle /\ execute_node_order(target_node_id)

\* the for loop of Workflow.execute_node, one iteration
execute_node_iteration ==
    /\ Running("execute_node")
    /\ run.i <= Len(run.execution_order)
    /\ \E valid \in BOOLEAN, raises \in BOOLEAN : LoopBody(valid, raises)
    /\ UNCHANGED <<connections, node_counter, global_params>>

\* return results of Workflow.execute_node
execute_node_return ==
    /\ Running("execute_node")
    /\ run.i > Len(run.execution_order)
    /\ outcome' = [op |-> "execute_node", target |-> run.target, kind |-> "return",
                   results |-> run.results]
    /\ run' = Finished(run)
    /\ UNCHANGED <<nodes, connections, node_counter, global_params, calls>>

\* Workflow.execute from its first line to its return, every node validating
\* and executing without error
RECURSIVE RunToEnd(_, _)
RunToEnd(frame, log) ==
    IF frame.i > Len(frame.execution_order)
    THEN [frame |-> frame, calls |-> log]
    ELSE LET it == Iteration(frame, log, TRUE, FALSE)
         IN  RunToEnd(it.frame, it.calls)

FullRun ==
    RunToEnd(Frame("execute", 0, get_execution_order(nodes, connections).order), NoCalls)

\* the caller of the operation that has returned or raised (for a run,
\* MainWindow._execute_workflow / _execute_node) is done with what it received
\* and control is back in the event loop
handler_exit ==
    /\ run.pc = "finished"
    /\ run' = IdleRun
    /\ calls' = NoCalls
    /\ outcome' = NoOutcome
    /\ UNCHANGED <<nodes, connections, node_counter, global_params>>

\* ------------------------------------------------------------ parameters
\* BaseNode.set_param, called by the configuration panel on a node of the workflow
set_param(node_id, key, value) ==
    /\ Idle
    /\ node_id \in NodeIds
    /\ nodes' = DictSet(nodes, [NodeOf(node_id) EXCEPT !.config = DictPut(@, key, value)])
    /\ outcome' = [op |-> "set_param", kind |-> "return", node_id |-> node_id]
    /\ calls' = NoCalls
    /\ run' = Edited
    /\ UNCHANGED <<connections, node_counter, global_params>>

\* MainWindow._show_global_params: workflow.global_params is bound to the
\* dict the dialog built
set_global_params(params) ==
    /\ Idle
    /\ params # global_params
    /\ global_params' = params
    /\ outcome' = [op |-> "set_global_params", kind |-> "return"]
    /\ calls' = NoCalls
    /\ run' = Edited
    /\ UNCHANGED <<nodes, connections, node_counter>>

\* MainWindow._show_global_params while a run is in progress: the progress
\* callback of the run processes events after a step, and the menu is served
set_global_params_in_run(params) ==
    /\ run.pc = "executing"
    /\ run.i > 1
    /\ params # global_params
    /\ global_params' = params
    /\ UNCHANGED <<nodes, connections, node_counter, run, calls, outcome>>

\* placeholder in val
Contains(val, placeholder) ==
    \E i \in 1..(Len(val) - Len(placeholder) + 1) :
        SubSeq(val, i, i + Len(placeholder) - 1) = placeholder

\* val.replace(old, new): every occurrence of old, found left to right
RECURSIVE Replace(_, _, _)
Replace(val, old, new) ==
    IF Len(val) < Len(old) THEN val
    ELSE IF SubSeq(val, 1, Len(old)) = old
    THEN new \o Replace(SubSeq(val, Len(old) + 1, Len(val)), old, new)
    ELSE <<val[1]>> \o Replace(Tail(val), old, new)

\* str(v); the numbers in use have one digit
PyStr(v) ==
    IF isinstance_str(v) THEN v.str
    ELSE IF "num" \in DOMAIN v THEN <<ToString(v.num)>>
    ELSE <<"N", "o", "n", "e">>

\* "{" + k + "}"
Placeholder(k) == <<"{">> \o k \o <<"}">>

\* the for loop of get_param over self._context.items(), from item k on
RECURSIVE SubstituteLoop(_, _, _)
SubstituteLoop(val, context, k) ==
    IF k > Len(context)
    THEN val
    ELSE LET placeholder == Placeholder(context[k].key)
         IN  SubstituteLoop(IF Contains(val, placeholder)
                            THEN Replace(val, placeholder, PyStr(context[k].value))
                            ELSE val,
                            context, k + 1)

\* BaseNode.get_param as a function of the node; with str keys and str()
\* defined on every value nothing in the try block raises
GetParam(node, key, default) ==
    LET val == DictGet(node.config, key, default)
    IN  IF isinstance_str(val) /\ node.context # EmptyDict
        THEN StrVal(SubstituteLoop(val.str, node.context, 1))
        ELSE val

\* BaseNode.get_param called on a node of the workflow
get_param(node_id, key, default) ==
    /\ Idle
    /\ node_id \in NodeIds
    /\ outcome' = [op |-> "get_param", kind |-> "return", node_id |-> node_id,
                   key |-> key, default |-> default,
                   ret |-> GetParam(NodeOf(node_id), key, default)]
    /\ calls' = NoCalls
    /\ run' = Edited
    /\ UNCHANGED <<nodes, connections, node_counter, global_params>>

\* ------------------------------------------------------------ persistence
\* Connection.to_dict
Connection_to_dict(conn) ==
    [from_node |-> conn.from_node, from_port |-> conn.from_port,
     to_node |-> conn.to_node, to_port |-> conn.to_port]

\* Connection.from_dict
Connection_from_dict(data) ==
    [from_node |-> data.from_node, from_port |-> data.from_port,
     to_node |-> data.to_node, to_port |-> data.to_port]

\* BaseNode.to_dict; connected_to of a port is never set and stays None
BaseNode_to_dict(node) ==
    [node_id |-> node.node_id, node_type |-> node.node_type,
     position |-> node.position, config |-> node.config,
     inputs  |-> [k \in DOMAIN InputPorts(node.node_type) |->
                     [name |-> InputPorts(node.node_type)[k], connected_to |-> NoneVal]],
     outputs |-> [k \in DOMAIN OutputPorts(node.node_type) |->
                     [name |-> OutputPorts(node.node_type)[k], connected_to |-> NoneVal]]]

\* Workflow.to_dict
to_dict ==
    [name |-> "Untitled Workflow",
     node_counter |-> node_counter,
     global_params |-> global_params,
     nodes |-> [k \in DOMAIN nodes |->
                   [key |-> nodes[k].node_id, value |-> BaseNode_to_dict(nodes[k])]],
     connections |-> [k \in DOMAIN connections |-> Connection_to_dict(connections[k])]]

\* what json.load reads back of a value json.dump wrote: a tuple comes back
\* as a list, a str, a number, None and a list as they were
JsonValue(v) == IF "tuple" \in DOMAIN v THEN PyList(v.tuple) ELSE v

JsonDict(d) == [k \in DOMAIN d |-> [key |-> d[k].key, value |-> JsonValue(d[k].value)]]

\* json.load of what json.dump wrote for a node dict
JsonNode(node_data) ==
    [node_data EXCEPT !.position = JsonValue(@), !.config = JsonDict(@)]

\* Workflow.save followed by the json.load of Workflow.load: the document read
\* back from the file
save(data) ==
    [data EXCEPT !.global_params = JsonDict(@),
                 !.nodes = [k \in DOMAIN @ |-> [key |-> @[k].key, value |-> JsonNode(@[k].value)]]]

\* tuple(x) of a list or a tuple
tuple(x) == IF "list" \in DOMAIN x THEN PyTuple(x.list) ELSE x

\* a from_dict that keeps the position as it was read
from_dict_asread(node, data) ==
    [node EXCEPT !.position = data.position, !.config = data.config]

\* BaseNode.from_dict; the ports keep connected_to = None
from_dict(node, data) ==
    [node EXCEPT !.position = tuple(data.position), !.config = data.config]

\* the node loop of Workflow.load, from item k on; create_node raises
\* ValueError for a type that is not registered
RECURSIVE LoadNodes(_, _, _)
LoadNodes(items, k, loaded) ==
    IF k > Len(items)
    THEN [ok |-> TRUE, nodes |-> loaded]
    ELSE LET made == create_node(items[k].value.node_type, items[k].key)
         IN  IF ~made.ok
             THEN made
             ELSE LoadNodes(items, k + 1, DictSet(loaded, from_dict(made.node, items[k].value)))

\* a load that starts the counter of the new workflow at its default
load_fresh_counter(data) ==
    LET loaded == LoadNodes(data.nodes, 1, <<>>)
    IN  IF ~loaded.ok
        THEN loaded
        ELSE [ok |-> TRUE, nodes |-> loaded.nodes, node_counter |-> 0,
              global_params |-> data.global_params,
              connections |-> [k \in DOMAIN data.connections |->
                                  Connection_from_dict(data.connections[k])]]

\* Workflow.load on the document read from the file
load(data) ==
    LET loaded == LoadNodes(data.nodes, 1, <<>>)
    IN  IF ~loaded.ok
        THEN loaded
        ELSE [ok |-> TRUE, nodes |-> loaded.nodes,
              node_counter |-> IF "node_counter" \in DOMAIN data THEN data.node_counter ELSE 0,
              global_params |-> IF "global_params" \in DOMAIN data
                                THEN data.global_params ELSE EmptyDict,
              connections |-> [k \in DOMAIN data.connections |->
                                  Connection_from_dict(data.connections[k])]]

\* MainWindow._save_workflow followed by MainWindow._open_workflow of the file
\* just written: the workflow is replaced by the one Workflow.load returns
round_trip ==
    /\ Idle
    /\ LET workflow == load(save(to_dict))
       IN  IF workflow.ok
           THEN /\ nodes' = workflow.nodes
                /\ connections' = workflow.connections
                /\ node_counter' = workflow.node_counter
                /\ global_params' = workflow.global_params
                /\ outcome' = [op |-> "round_trip", kind |-> "return"]
           ELSE /\ UNCHANGED <<nodes, connections, node_counter, global_params>>
                /\ outcome' = [op |-> "round_trip", kind |-> "raise", exc |-> workflow.exc]
    /\ calls' = NoCalls
    /\ run' = Edited

\* the default position of add_node
Origin == PyTuple(<<0, 0>>)

\* ids a caller may name: every id minted so far, and one not minted yet
CallerIds == 1..(node_counter + 1)

Next ==
    \/ \E t \in RequestedTypes : add_node(t, Origin)
    \/ \E id \in CallerIds : remove_node(id)
    \/ \E f \in CallerIds, t \in CallerIds, fp \in PortNames, tp \in PortNames :
           add_connection(f, fp, t, tp)
    \/ \E k \in DOMAIN connections : remove_connection(k)
    \/ remove_connection_absent
    \/ execute_begin
    \/ execute_iteration
    \/ execute_return
    \/ \E id \in CallerIds : execute_node_begin(id)
    \/ execute_node_iteration
    \/ execute_node_return
    \/ round_trip
    \/ handler_exit

Spec == Init /\ [][Next]_vars

\* ------------------------------------------------ configured workflows
\* what the user may enter: positions on the canvas, values of a config
\* field (a path with placeholders, a number), tables of global parameters
Positions == {Origin, PyTuple(<<100, 200>>)}

\* the step types placed at those positions: a source and a sink
PlacedTypes == {"read_excel", "data_preview"}

ParamKeys == {"file_path"}

ParamValues == {StrVal(<<"{", "a", "}", "/", "{", "c", "}">>), NumVal(7)}

GlobalParamChoices ==
    {EmptyDict,
     <<[key |-> <<"a">>, value |-> StrVal(<<"{", "b", "}">>)],
       [key |-> <<"b">>, value |-> StrVal(<<"y">>)]>>,
     <<[key |-> <<"b">>, value |-> StrVal(<<"y">>)],
       [key |-> <<"a">>, value |-> StrVal(<<"{", "b", "}">>)]>>}

\* the workflow with its saved form: steps placed and configured, global
\* parameters, connections, and round trips through a file
SavedSmall == node_counter + Len(connections) < MaxSaved

NextSaved ==
    \/ \E t \in PlacedTypes, pos \in Positions : SavedSmall /\ add_node(t, pos)
    \/ \E f \in NodeIds, t \in NodeIds, fp \in PortNames, tp \in PortNames :
           SavedSmall /\ add_connection(f, fp, t, tp)
    \/ \E id \in NodeIds, key \in ParamKeys, value \in ParamValues : set_param(id, key, value)
    \/ \E params \in GlobalParamChoices : set_global_params(params)
    \/ round_trip
    \/ handler_exit

SpecSaved == Init /\ [][NextSaved]_vars

\* the workflow with its parameters in use: steps configured, global
\* parameters changed between and during runs, parameters read
ContextSmall == node_counter + Len(connections) < MaxContext

NextContext ==
    \/ \E t \in RegisteredTypes : ContextSmall /\ add_node(t, Origin)
    \/ \E f \in NodeIds, t \in NodeIds, fp \in PortNames, tp \in PortNames :
           ContextSmall /\ add_connection(f, fp, t, tp)
    \/ \E id \in NodeIds, key \in ParamKeys, value \in ParamValues : set_param(id, key, value)
    \/ \E params \in GlobalParamChoices : set_global_params(params)
    \/ \E params \in GlobalParamChoices : set_global_params_in_run(params)
    \/ execute_begin
    \/ execute_iteration
    \/ execute_return
    \/ \E id \in NodeIds : execute_node_begin(id)
    \/ execute_node_iteration
    \/ execute_node_return
    \/ \E id \in NodeIds, key \in ParamKeys, default \in {NoneVal} : get_param(id, key, default)
    \/ handler_exit

SpecContext == Init /\ [][NextContext]_vars

\* --------------------------------------------------- files from outside
\* a saved document in which the entry of step node_id was deleted by hand,
\* the connections left as they were
WithoutNode(data, node_id) ==
    [data EXCEPT !.nodes = SelectSeq(@, LAMBDA item : item.key # node_id)]

\* MainWindow._open_workflow on a document read from a file: the workflow is
\* replaced by the one Workflow.load returns
open_workflow(data) ==
    /\ Idle
    /\ LET workflow == load(data)
       IN  IF workflow.ok
           THEN /\ nodes' = workflow.nodes
                /\ connections' = workflow.connections
                /\ node_counter' = workflow.node_counter
                /\ global_params' = workflow.global_params
                /\ outcome' = [op |-> "open_workflow", kind |-> "return"]
           ELSE /\ UNCHANGED <<nodes, connections, node_counter, global_params>>
                /\ outcome' = [op |-> "open_workflow", kind |-> "raise", exc |-> workflow.exc]
    /\ calls' = NoCalls
    /\ run' = Edited

\* one table of global parameters, or none
RunParamChoices ==
    {EmptyDict, <<[key |-> <<"a">>, value |-> StrVal(<<"y">>)]>>}

\* the workflow built, opened from files edited outside, and run with the
\* progress callback, between changes of the global parameters
RunsSmall == node_counter + Len(connections) < MaxRuns

NextRuns ==
    \/ \E t \in RegisteredTypes : RunsSmall /\ add_node(t, Origin)
    \/ \E f \in NodeIds, t \in NodeIds, fp \in PortNames, tp \in PortNames :
           RunsSmall /\ add_connection(f, fp, t, tp)
    \/ \E id \in NodeIds : open_workflow(WithoutNode(save(to_dict), id))
    \/ \E params \in RunParamChoices : set_global_params(params)
    \/ execute_begin
    \/ execute_iteration
    \/ execute_return
    \/ \E id \in NodeIds : execute_node_begin(id)
    \/ execute_node_iteration
    \/ execute_node_return
    \/ handler_exit

SpecRuns == Init /\ [][NextRuns]_vars


\* ------------------------------------------------------ a run, step by step
\* the call has been made and its first line has not run yet
Called(mode, target) == [pc |-> "ordering", mode |-> mode, target |-> target]

\* MainWindow._execute_workflow calls Workflow.execute
execute_called ==
    /\ Idle
    /\ run' = Called("execute", 0)
    /\ outcome' = Pending("execute", 0)
    /\ calls' = NoCalls
    /\ UNCHANGED <<nodes, connections, node_counter, global_params>>

\* Workflow.execute from its first line to the loop
execute_ordered ==
    /\ run.pc = "ordering"
    /\ run.mode = "execute"
    /\ execute_order

\* MainWindow._execute_node calls Workflow.execute_node
execute_node_called(target_node_id) ==
    /\ Idle
    /\ run' = Called("execute_node", target_node_id)
    /\ outcome' = Pending("execute_node", target_node_id)
    /\ calls' = NoCalls
    /\ UNCHANGED <<nodes, connections, node_counter, global_params>>

\* Workflow.execute_node from its first line to the loop
execute_node_ordered ==
    /\ run.pc = "ordering"
    /\ run.mode = "execute_node"
    /\ execute_node_order(run.target)

\* a loop head that passes over the ids that are no longer keys of the dict
RECURSIVE step_enter_present(_)
step_enter_present(frame) ==
    IF frame.i <= Len(frame.execution_order) /\ frame.execution_order[frame.i] \notin NodeIds
    THEN step_enter_present([frame EXCEPT !.i = @ + 1])
    ELSE IF frame.i <= Len(frame.execution_order)
    THEN [frame |-> [frame EXCEPT !.pc = "in_step"], exc |-> "none"]
    ELSE [frame |-> frame, exc |-> "none"]

\* the loop head of execute / execute_node: node = self.nodes[node_id], a
\* KeyError when the id is no longer a key
step_lookup(frame) ==
    IF frame.execution_order[frame.i] \in NodeIds
    THEN [frame |-> [frame EXCEPT !.pc = "in_step"], exc |-> "none"]
    ELSE [frame |-> frame, exc |-> "KeyError"]

\* the loop takes the next id of its order and looks the node up
step_enter ==
    /\ run.pc = "executing"
    /\ run.i <= Len(run.execution_order)
    /\ LET found == step_lookup(run)
       IN  IF found.exc = "none"
           THEN /\ run' = found.frame
                /\ UNCHANGED outcome
           ELSE /\ run' = Finished(found.frame)
                /\ outcome' = [op |-> run.mode, target |-> run.target, kind |-> "raise",
                               exc |-> found.exc,
                               msg |-> [node_id |-> run.execution_order[run.i]],
                               node_id |-> run.execution_order[run.i]]
    /\ UNCHANGED <<nodes, connections, node_counter, global_params, calls>>

\* the rest of the loop body on the node looked up: set_context, validate,
\* the inputs, execute, the results and the progress callback
step_leave ==
    /\ run.pc = "in_step"
    /\ \E valid \in BOOLEAN, raises \in BOOLEAN : LoopBody(valid, raises)
    /\ UNCHANGED <<connections, node_counter, global_params>>

\* MainWindow._delete_selected served by QApplication.processEvents() inside
\* the progress callback of the run: Workflow.remove_node while the loop
\* waits for the callback of the step before to return
remove_node_in_run(node_id) ==
    /\ run.pc = "executing"
    /\ run.i > 1
    /\ node_id \in NodeIds
    /\ connections' = ConnectionsWithout(connections, node_id)
    /\ nodes' = DictDel(nodes, node_id)
    /\ UNCHANGED <<node_counter, global_params, run, calls, outcome>>

\* the workflow built and run step by step, the user deleting steps while
\* the progress callback processes events
StepsSmall == node_counter + Len(connections) < MaxSteps

NextSteps ==
    \/ \E t \in RegisteredTypes : StepsSmall /\ add_node(t, Origin)
    \/ \E f \in NodeIds, t \in NodeIds, fp \in PortNames, tp \in PortNames :
           StepsSmall /\ add_connection(f, fp, t, tp)
    \/ execute_called
    \/ execute_ordered
    \/ \E id \in NodeIds : execute_node_called(id)
    \/ execute_node_ordered
    \/ step_enter
    \/ step_leave
    \/ \E id \in NodeIds : remove_node_in_run(id)
    \/ execute_return
    \/ execute_node_return
    \/ handler_exit

SpecSteps == Init /\ [][NextSteps]_vars


\* ---------------------------------------------------- the loops, turn by turn
LoopOps == {"get_ancestors", "get_execution_order", "execute", "execute_node"}

\* get_ancestors before its while loop: ancestors = set(), queue = [node_id],
\* visited = {node_id}
AncestorsFrame(mode, target) ==
    [pc |-> "ancestors", mode |-> mode, target |-> target,
     queue |-> <<target>>, visited |-> {target}, ancestors |-> {}]

\* get_execution_order before its while loop: in_degree and adjacency filled
\* from the connections, queue = the ids of in-degree 0 in dict order
KahnFrame(mode, target, ancestors) ==
    LET ids   == NodeIds
        keys  == [k \in DOMAIN nodes |-> nodes[k].node_id]
        graph == BuildGraph(connections, 1, [id \in ids |-> 0], [id \in ids |-> <<>>])
    IN  [pc |-> "kahn", mode |-> mode, target |-> target, ancestors |-> ancestors,
         in_degree |-> graph.in_degree, adjacency |-> graph.adjacency,
         queue |-> SelectSeq(keys, LAMBDA id : graph.in_degree[id] = 0),
         result |-> <<>>]

\* one of the four operations is called; execute_node starts with
\* get_ancestors, execute with get_execution_order
loop_called(mode, target) ==
    /\ Idle
    /\ run' = IF mode \in {"get_ancestors", "execute_node"}
              THEN AncestorsFrame(mode, target)
              ELSE KahnFrame(mode, target, {})
    /\ outcome' = Pending(mode, target)
    /\ calls' = NoCalls
    /\ UNCHANGED <<nodes, connections, node_counter, global_params>>

\* one turn of the while loop of get_ancestors: current = queue.popleft() and the
\* for loop over the connections
ancestors_turn ==
    /\ run.pc = "ancestors"
    /\ run.queue # <<>>
    /\ LET after == AncestorScan(connections, 1, Head(run.queue), Tail(run.queue),
                                 run.visited, run.ancestors)
       IN  run' = [run EXCEPT !.queue = after.queue, !.visited = after.visited,
                              !.ancestors = after.ancestors]
    /\ UNCHANGED <<nodes, connections, node_counter, global_params, calls, outcome>>

\* the queue of get_ancestors is empty: return ancestors; execute_node goes
\* on with get_execution_order
ancestors_return ==
    /\ run.pc = "ancestors"
    /\ run.queue = <<>>
    /\ IF run.mode = "get_ancestors"
       THEN /\ run' = Finished(run)
            /\ outcome' = [op |-> run.mode, target |-> run.target, kind |-> "return",
                           ancestors |-> run.ancestors]
       ELSE /\ run' = KahnFrame(run.mode, run.target, run.ancestors)
            /\ UNCHANGED outcome
    /\ UNCHANGED <<nodes, connections, node_counter, global_params, calls>>

\* one turn of the while loop of get_execution_order: node_id = queue.popleft(),
\* result.append(node_id) and the for loop over its neighbors
kahn_turn ==
    /\ run.pc = "kahn"
    /\ run.queue # <<>>
    /\ LET node_id == Head(run.queue)
           after   == Relax(run.adjacency[node_id], 1, run.in_degree, Tail(run.queue))
       IN  run' = [run EXCEPT !.queue = after.queue, !.in_degree = after.in_degree,
                              !.result = Append(@, node_id)]
    /\ UNCHANGED <<nodes, connections, node_counter, global_params, calls, outcome>>

\* the queue of get_execution_order is empty: ValueError when a node is left
\* out, else the order is returned; execute and execute_node enter their loop
kahn_return ==
    /\ run.pc = "kahn"
    /\ run.queue = <<>>
    /\ IF Len(run.result) # Len(nodes)
       THEN /\ run' = Finished(run)
            /\ outcome' = Structural(run.mode, run.target, "ValueError")
       ELSE IF run.mode = "get_execution_order"
       THEN /\ run' = Finished(run)
            /\ outcome' = [op |-> run.mode, target |-> run.target, kind |-> "return",
                           order |-> run.result]
       ELSE IF run.mode = "execute"
       THEN /\ run' = Frame("execute", 0, run.result)
            /\ UNCHANGED outcome
       ELSE /\ run' = Frame("execute_node", run.target,
                            RestrictOrder(run.result, run.ancestors \cup {run.target}))
            /\ UNCHANGED outcome
    /\ UNCHANGED <<nodes, connections, node_counter, global_params, calls>>

\* a statement of the operation in progress
LoopTurn ==
    \/ ancestors_turn
    \/ ancestors_return
    \/ kahn_turn
    \/ kahn_return
    \/ execute_iteration
    \/ execute_return
    \/ execute_node_iteration
    \/ execute_node_return

LoopsSmall == node_counter + Len(connections) < MaxLoops

NextLoops ==
    \/ \E t \in RegisteredTypes : LoopsSmall /\ add_node(t, Origin)
    \/ \E f \in NodeIds, t \in NodeIds, fp \in PortNames, tp \in PortNames :
           LoopsSmall /\ add_connection(f, fp, t, tp)
    \/ loop_called("execute", 0)
    \/ loop_called("get_execution_order", 0)
    \/ \E id \in NodeIds : loop_called("get_ancestors", id)
    \/ \E id \in NodeIds : loop_called("execute_node", id)
    \/ LoopTurn
    \/ handler_exit

\* the program is single-threaded and synchronous: the statement that can run
\* next does run
SpecLoops == Init /\ [][NextLoops]_vars /\ WF_vars(LoopTurn)

\* the turns compute what get_ancestors and get_execution_order compute
TurnsAgree ==
    /\ (run.pc = "finished" /\ outcome.op = "get_ancestors") =>
           outcome.ancestors = get_ancestors(connections, outcome.target)
    /\ (run.pc = "finished" /\ outcome.op = "get_execution_order") =>
           LET full == get_execution_order(nodes, connections)
           IN  IF outcome.kind = "return"
               THEN full.ok /\ full.order = outcome.order
               ELSE ~full.ok /\ full.exc = outcome.exc
    /\ (run.pc = "executing" /\ run.i = 1 /\ run.mode = "execute") =>
           run.execution_order = get_execution_order(nodes, connections).order
    /\ (run.pc = "executing" /\ run.i = 1 /\ run.mode = "execute_node") =>
           run.execution_order =
               RestrictOrder(get_execution_order(nodes, connections).order,
                             get_ancestors(connections, run.target) \cup {run.target})


\* ==================================================================== claims
\* ---------------------------------------------------- reference definitions
\* sources of the connections into a node of S
Sources(S) == {connections[k].from_node :
                  k \in {j \in DOMAIN connections : connections[j].to_node \in S}}

RECURSIVE BackwardClosure(_)
BackwardClosure(S) ==
    LET T == S \cup Sources(S) IN IF T = S THEN S ELSE BackwardClosure(T)

\* the nodes from which x is reached along one or more connections
ReachBack(x) == BackwardClosure(Sources({x}))

HasCycle == \E x \in NodeIds : x \in ReachBack(x)

Acyclic == ~HasCycle

\* node ids of the calls of one kind, in call order
CallIds(name) ==
    LET sel == SelectSeq(calls, LAMBDA c : c.call = name)
    IN  [k \in DOMAIN sel |-> sel[k].node_id]

Executed == CallIds("execute")

Validated == CallIds("validate")

Range(s) == {s[k] : k \in DOMAIN s}

RunOps == {"execute", "execute_node"}

Returned(op) == run.pc = "finished" /\ outcome.op = op /\ outcome.kind = "return"

\* new consists of the elements of old that satisfy Keep, in the order of old
KeptInOrder(old, new, Keep(_)) ==
    \E f \in [DOMAIN new -> DOMAIN old] :
        /\ \A j \in DOMAIN new : new[j] = old[f[j]]
        /\ \A i \in DOMAIN new, j \in DOMAIN new : i < j => f[i] < f[j]
        /\ \A k \in DOMAIN old : Keep(old[k]) => \E j \in DOMAIN new : f[j] = k

\* ------------------------------------------------------------------------ C1
\* C1: on an acyclic workflow execute() is not refused for its structure; a
\* full run whose steps all validate and execute runs every step exactly
\* once, and a step is executed only after every step with a connection into it.
C1_ExecuteOnceInDependencyOrder ==
    /\ (Acyclic /\ outcome.op = "execute" /\ outcome.kind = "raise") => outcome.node_id # 0
    /\ Returned("execute") =>
           /\ Len(Executed) = Len(nodes)
           /\ \A id \in NodeIds : Cardinality({k \in DOMAIN Executed : Executed[k] = id}) = 1
    /\ outcome.op = "execute" =>
           \A k \in DOMAIN Executed : \A c \in DOMAIN connections :
               connections[c].to_node = Executed[k] =>
                   \E j \in 1..(k-1) : Executed[j] = connections[c].from_node

\* a full run returned on three steps chained against their insertion order
C1_Witness ==
    /\ Returned("execute")
    /\ Len(nodes) = 3
    /\ Len(connections) = 2
    /\ \E c \in DOMAIN connections : connections[c].from_node > connections[c].to_node

\* ------------------------------------------------------------------------ C2
\* C2: on a workflow with a cycle, execute() and execute_node(target) raise
\* before the loop and no step is validated or executed.
C2_CycleRaisesBeforeAnyStep ==
    (HasCycle /\ outcome.op \in RunOps) =>
        /\ outcome.kind = "raise"
        /\ outcome.node_id = 0
        /\ \A k \in DOMAIN calls : calls[k].call \notin {"validate", "execute"}

\* execute_node was refused although no cycle lies on or above its target
C2_Witness ==
    /\ HasCycle
    /\ outcome.op = "execute_node"
    /\ outcome.target \in NodeIds
    /\ outcome.kind = "raise"
    /\ \A y \in ReachBack(outcome.target) \cup {outcome.target} : y \notin ReachBack(y)

\* ------------------------------------------------------------------------ C3
\* C3: at most one connection ends at any (step, input port); after an
\* add_connection into an occupied port the connection it returned is the
\* only one at that port.
IntoSamePort(c, d) == c.to_node = d.to_node /\ c.to_port = d.to_port

C3_SingleConnectionPerInput ==
    /\ \A j \in DOMAIN connections, k \in DOMAIN connections :
           j # k => ~IntoSamePort(connections[j], connections[k])
    /\ (outcome.op = "add_connection" /\ outcome.ret = "Connection" /\ outcome.replaced) =>
           /\ connections[Len(connections)] = outcome.conn
           /\ {k \in DOMAIN connections : IntoSamePort(connections[k], outcome.conn)}
                  = {Len(connections)}

\* an add_connection has just replaced the connection at an occupied port,
\* with a different source
C3_Witness ==
    /\ outcome.op = "add_connection"
    /\ outcome.ret = "Connection"
    /\ outcome.replaced
    /\ Len(connections) = 2

\* ------------------------------------------------------------------------ C4
\* C4: both ends of every connection are steps of the workflow, its source
\* port is an output port of the source step and its destination port an
\* input port of the destination step.
C4_ConnectionsReferToStepsAndPorts ==
    \A k \in DOMAIN connections :
        LET c == connections[k]
        IN  /\ c.from_node \in NodeIds
            /\ c.to_node \in NodeIds
            /\ \E p \in DOMAIN OutputPorts(NodeOf(c.from_node).node_type) :
                   OutputPorts(NodeOf(c.from_node).node_type)[p] = c.from_port
            /\ \E p \in DOMAIN InputPorts(NodeOf(c.to_node).node_type) :
                   InputPorts(NodeOf(c.to_node).node_type)[p] = c.to_port

\* a remove_node took connections with it and left another one in place
C4_Witness ==
    /\ outcome.op = "remove_node"
    /\ outcome.existed
    /\ outcome.dropped >= 1
    /\ Len(connections) >= 1

\* ------------------------------------------------------------------------ C5
\* C5: remove_node(id) on an existing step removes the step and every
\* connection with id at either end, and keeps every other step and every
\* other connection in the same relative order.
C5_Step ==
    (outcome'.op = "remove_node" /\ outcome'.existed) =>
        LET id == outcome'.node_id
        IN  /\ id \in NodeIds
            /\ id \notin {nodes'[k].node_id : k \in DOMAIN nodes'}
            /\ \A k \in DOMAIN connections' :
                   connections'[k].from_node # id /\ connections'[k].to_node # id
            /\ KeptInOrder(nodes, nodes', LAMBDA n : n.node_id # id)
            /\ KeptInOrder(connections, connections',
                           LAMBDA c : c.from_node # id /\ c.to_node # id)
            /\ node_counter' = node_counter

C5_RemoveNodeCascades == [][C5_Step]_vars

\* the middle one of three steps was removed together with a connection
C5_Witness ==
    /\ outcome.op = "remove_node"
    /\ outcome.existed
    /\ outcome.node_id = 2
    /\ outcome.dropped >= 1
    /\ Len(nodes) = 2


\* ------------------------------------------------------------------------ C6
\* C6: on an acyclic workflow, every output map that execute_node(target)
\* produces is the output map a successful execute() produces for that step,
\* and when it returns it has produced one for target and each of its ancestors.
FullOutputs == FullRun.frame.node_outputs

InPartialRun ==
    /\ run.pc # "idle"
    /\ run.mode = "execute_node"
    /\ run.target \in NodeIds
    /\ Acyclic

C6_PartialRunEquivalence ==
    /\ Returned("execute") =>
           /\ DOMAIN outcome.results = DOMAIN FullOutputs
           /\ \A n \in DOMAIN outcome.results : outcome.results[n].output = FullOutputs[n]
    /\ InPartialRun =>
           \A n \in DOMAIN run.node_outputs : run.node_outputs[n] = FullOutputs[n]
    /\ Returned("execute_node") =>
           /\ DOMAIN outcome.results = ReachBack(outcome.target) \cup {outcome.target}
           /\ \A n \in DOMAIN outcome.results : outcome.results[n].output = FullOutputs[n]

\* a partial run returned for a target with an ancestor, one step left out
C6_Witness ==
    /\ Returned("execute_node")
    /\ Len(nodes) = 3
    /\ Len(connections) = 2
    /\ Cardinality(DOMAIN outcome.results) = 2
    /\ ReachBack(outcome.target) # {}

\* ------------------------------------------------------------------------ C7
\* C7: execute_node(target) validates and executes only steps of
\* get_ancestors(target) plus target, in the order in which execute() visits
\* them, and when it returns it has validated and executed each of them once.
IsPrefix(a, b) == Len(a) <= Len(b) /\ \A k \in DOMAIN a : a[k] = b[k]

FullExecuted ==
    LET sel == SelectSeq(FullRun.calls, LAMBDA c : c.call = "execute")
    IN  [k \in DOMAIN sel |-> sel[k].node_id]

C7_PartialRunVisitsAncestorsInFullOrder ==
    InPartialRun =>
        LET included == get_ancestors(connections, run.target) \cup {run.target}
            expected == SelectSeq(FullExecuted, LAMBDA n : n \in included)
        IN  /\ Range(Validated) \subseteq included
            /\ Range(Executed) \subseteq included
            /\ IsPrefix(Validated, expected)
            /\ IsPrefix(Executed, expected)
            /\ Returned("execute_node") =>
                   /\ Validated = expected
                   /\ Executed = expected
                   /\ Range(Executed) = included

\* a partial run returned after visiting two steps against their id order
\* and leaving a third step out
C7_Witness ==
    /\ Returned("execute_node")
    /\ Len(nodes) = 3
    /\ Len(Executed) = 2
    /\ Executed[1] > Executed[2]

\* ------------------------------------------------------------------------ C8
\* C8 as stated: get_ancestors(x) is the set of steps from which x is reached
\* along one or more connections, and x is not in it.
C8_AncestorsAreAllBackwardReachable ==
    \A x \in NodeIds :
        /\ get_ancestors(connections, x) = ReachBack(x)
        /\ x \notin get_ancestors(connections, x)

\* C8 amended: get_ancestors(x) is the set of steps other than x from which x
\* is reached along one or more connections; x is never in it, also when x
\* lies on a cycle.
C8_AncestorsAreBackwardReachableButSelf ==
    \A x \in NodeIds : get_ancestors(connections, x) = ReachBack(x) \ {x}

\* execute_node computed the ancestors of a target that lies on a cycle
\* through another step
C8_Witness ==
    /\ outcome.op = "execute_node"
    /\ outcome.target \in NodeIds
    /\ outcome.target \in ReachBack(outcome.target)
    /\ get_ancestors(connections, outcome.target) # {}

\* ------------------------------------------------------------------------ C9
\* C9: when a step's execute raises, the steps after it in the execution
\* order are neither validated nor executed; when a run returns, its result
\* map has one entry for each included step and each entry has success = TRUE.
Included ==
    IF run.mode = "execute" THEN NodeIds ELSE ReachBack(run.target) \cup {run.target}

C9_FailFast ==
    /\ (run.pc = "finished" /\ outcome.op \in RunOps /\ outcome.kind = "raise"
            /\ outcome.exc = "RuntimeError") =>
           /\ run.execution_order[run.i] = outcome.node_id
           /\ calls[Len(calls)].call = "execute"
           /\ calls[Len(calls)].node_id = outcome.node_id
           /\ \A j \in DOMAIN run.execution_order :
                  /\ j <= run.i => /\ run.execution_order[j] \in Range(Validated)
                                   /\ run.execution_order[j] \in Range(Executed)
                  /\ j > run.i  => /\ run.execution_order[j] \notin Range(Validated)
                                   /\ run.execution_order[j] \notin Range(Executed)
    /\ \A op \in RunOps : Returned(op) =>
           /\ DOMAIN outcome.results = Included
           /\ \A n \in DOMAIN outcome.results : outcome.results[n].success

\* the second of three steps raised in execute
C9_Witness ==
    /\ run.pc = "finished"
    /\ outcome.op \in RunOps
    /\ outcome.kind = "raise"
    /\ outcome.exc = "RuntimeError"
    /\ run.i = 2
    /\ Len(run.execution_order) = 3

\* ----------------------------------------------------------------------- C10
\* C10: when a run stops because a step's execute raised, the caller holds
\* the result map of the run: the success entry of every step completed
\* before, and the error entry of the failed step.
C10_CallerHoldsPartialResults ==
    (run.pc = "finished" /\ outcome.op \in RunOps /\ outcome.kind = "raise"
         /\ outcome.exc = "RuntimeError") =>
        /\ "results" \in DOMAIN outcome
        /\ outcome.results = run.results
        /\ ~outcome.results[outcome.node_id].success

\* C11: when validate of a step answers failure during a run, the run ends at
\* once with a ValueError whose message names that step by name and id:
\* execute of that step is not called, no later step of the order is
\* validated or executed, and the caller receives no result map
FailedValidations == {k \in DOMAIN calls : calls[k].call = "validate" /\ ~calls[k].valid}

C11_ValidateFailureAborts ==
    \A k \in FailedValidations :
        LET node_id == calls[k].node_id
        IN  /\ k = Len(calls)
            /\ run.pc = "finished"
            /\ outcome.op \in RunOps /\ outcome.kind = "raise" /\ outcome.exc = "ValueError"
            /\ outcome.msg = [node_name |-> node_name(NodeOf(node_id)), node_id |-> node_id]
            /\ "results" \notin DOMAIN outcome
            /\ node_id \notin Range(Executed)
            /\ run.execution_order[run.i] = node_id
            /\ \A j \in DOMAIN run.execution_order :
                   j > run.i => run.execution_order[j] \notin (Range(Validated) \cup Range(Executed))

C11_Witness ==
    /\ FailedValidations # {}
    /\ outcome.op = "execute_node"
    /\ Len(run.execution_order) = 3
    /\ run.i = 2
    /\ Len(Executed) = 1

\* C12: add_connection returns None and leaves the node dict and the
\* connection list as they were whenever a node id is absent, from_port is
\* not an output port of from_node or to_port is not an input port of
\* to_node: a call that returns None changes nothing, and a call returns a
\* Connection only when both nodes exist and both ports are of the right side
PortsOf(ports) == {ports[k] : k \in DOMAIN ports}

ValidEnds(conn) ==
    /\ conn.from_node \in NodeIds
    /\ conn.to_node \in NodeIds
    /\ conn.from_port \in PortsOf(OutputPorts(NodeOf(conn.from_node).node_type))
    /\ conn.to_port \in PortsOf(InputPorts(NodeOf(conn.to_node).node_type))

C12_Step ==
    (Idle /\ outcome'.op = "add_connection") =>
        /\ outcome'.kind = "return"
        /\ outcome'.ret \in {"None", "Connection"}
        /\ outcome'.ret = "None" =>
               /\ nodes' = nodes
               /\ connections' = connections
               /\ node_counter' = node_counter
        /\ outcome'.ret = "Connection" => ValidEnds(outcome'.conn)

C12_RejectedConnectionChangesNothing == [][C12_Step]_vars

C12_Witness ==
    /\ outcome.op = "add_connection"
    /\ outcome.ret = "None"
    /\ Len(nodes) >= 2
    /\ Len(connections) >= 1

\* C13: a successful add_connection removes only a connection that was
\* already at the same (to_node, to_port), appends the new connection at the
\* end of the list and leaves every other connection, in its order, as it
\* was; connections leaving the same output port stay (fan-out)
AllButLast(s) == SubSeq(s, 1, Len(s) - 1)

C13_Step ==
    (Idle /\ outcome'.op = "add_connection" /\ outcome'.ret = "Connection") =>
        LET conn == outcome'.conn
        IN  /\ connections' # <<>>
            /\ connections'[Len(connections')] = conn
            /\ AllButLast(connections') =
                   SelectSeq(connections, LAMBDA c : ~IntoSamePort(c, conn))
            /\ \A k \in DOMAIN connections :
                   (/\ connections[k].from_node = conn.from_node
                    /\ connections[k].from_port = conn.from_port
                    /\ ~IntoSamePort(connections[k], conn))
                       => \E j \in DOMAIN connections' : connections'[j] = connections[k]
            /\ nodes' = nodes

C13_AddConnectionFrame == [][C13_Step]_vars

C13_Witness ==
    /\ outcome.op = "add_connection"
    /\ outcome.ret = "Connection"
    /\ outcome.replaced
    /\ Len(connections) >= 2
    /\ \E k \in 1..(Len(connections) - 1) :
           /\ connections[k].from_node = outcome.conn.from_node
           /\ connections[k].from_port = outcome.conn.from_port

\* C15: add_node with a type that is not registered raises the ValueError of
\* NodeRegistry.create_node and stores no node; with a registered type it
\* stores exactly one new node, of that type, under the id it minted
C15_Step ==
    (Idle /\ outcome'.op = "add_node") =>
        IF outcome'.node_type \notin RegisteredTypes
        THEN /\ outcome'.kind = "raise"
             /\ outcome'.exc = create_node(outcome'.node_type, node_counter + 1).exc
             /\ outcome'.exc = "ValueError"
             /\ nodes' = nodes
             /\ connections' = connections
        ELSE /\ outcome'.kind = "return"
             /\ outcome'.node_id = node_counter + 1
             /\ outcome'.node_id \notin NodeIds
             /\ Len(nodes') = Len(nodes) + 1
             /\ AllButLast(nodes') = nodes
             /\ nodes'[Len(nodes')].node_id = outcome'.node_id
             /\ nodes'[Len(nodes')].node_type = outcome'.node_type
             /\ connections' = connections

C15_AddNodeStoresOneOrRaises == [][C15_Step]_vars

C15_Witness ==
    /\ outcome.op = "add_node"
    /\ outcome.kind = "raise"
    /\ outcome.node_type = "no_such_type"
    /\ Len(nodes) >= 1
    /\ node_counter > nodes[Len(nodes)].node_id

\* C17: the input map handed to execute of a step has key p exactly when a
\* connection (X, q) -> (step, p) exists with X executed earlier in this run
\* and q a key of the output map of X, and the value at p is the output of X
\* for q; nothing reaches a step but through a connection into it
\* the output map of X if X executed without error before call k, else none
OutputBefore(k, X) ==
    IF /\ \E j \in 1..(k - 1) : calls[j].call = "execute" /\ calls[j].node_id = X
       /\ X \in DOMAIN run.node_outputs
    THEN run.node_outputs[X]
    ELSE EmptyMap

\* the connections that deliver something to port p of the step of call k
Delivering(k, p) ==
    {j \in DOMAIN connections :
        /\ connections[j].to_node = calls[k].node_id
        /\ connections[j].to_port = p
        /\ connections[j].from_port \in DOMAIN OutputBefore(k, connections[j].from_node)}

C17_InputsComeThroughConnections ==
    \A k \in DOMAIN calls :
        calls[k].call = "execute" =>
            LET input_data == calls[k].input_data
            IN  /\ DOMAIN input_data \subseteq PortNames
                /\ \A p \in PortNames :
                       /\ p \in DOMAIN input_data <=> Delivering(k, p) # {}
                       /\ p \in DOMAIN input_data =>
                              \E j \in Delivering(k, p) :
                                  input_data[p] =
                                      OutputBefore(k, connections[j].from_node)[connections[j].from_port]

\* a merge step received its left input only, while another step that ran
\* before it, with an output, is not connected to it
C17_Witness ==
    \E k \in DOMAIN calls :
        /\ calls[k].call = "execute"
        /\ DOMAIN calls[k].input_data = {"left"}
        /\ \E X \in NodeIds :
               /\ OutputBefore(k, X) # EmptyMap
               /\ \A j \in DOMAIN connections :
                      ~(connections[j].from_node = X /\ connections[j].to_node = calls[k].node_id)

\* C20: the order of get_execution_order is fixed by the insertion order of
\* the steps and the order of the connection list alone, so every call on an
\* unchanged workflow gives the same order: the steps without incoming
\* connection come first, in insertion order; every other step comes in the
\* order in which its last incoming connection is released, that is by the
\* place in the order of the last of its sources and, among steps released
\* by the same source, by the place of that connection in the list (stated
\* of the workflow between operations: a run does not change steps or
\* connections).  A run in progress holds the order a call would give now.
IndexIn(s, x) == CHOOSE k \in DOMAIN s : s[k] = x

\* place in ord of the source of connection j
SourcePlace(ord, j) == IndexIn(ord, connections[j].from_node)

\* the connection that releases step a: of the connections into a, the one
\* whose source comes last in ord, and the last such in the list
Releasing(ord, a) ==
    LET into == {j \in DOMAIN connections : connections[j].to_node = a}
    IN  CHOOSE j \in into :
            \A i \in into : \/ SourcePlace(ord, i) < SourcePlace(ord, j)
                            \/ SourcePlace(ord, i) = SourcePlace(ord, j) /\ i <= j

ComesBefore(ord, a, b) ==
    LET a_source == \A j \in DOMAIN connections : connections[j].to_node # a
        b_source == \A j \in DOMAIN connections : connections[j].to_node # b
    IN  IF a_source /\ b_source THEN IndexIn(KeyOrder, a) < IndexIn(KeyOrder, b)
        ELSE IF a_source THEN TRUE
        ELSE IF b_source THEN FALSE
        ELSE LET ra == Releasing(ord, a)
                 rb == Releasing(ord, b)
             IN  \/ SourcePlace(ord, ra) < SourcePlace(ord, rb)
                 \/ SourcePlace(ord, ra) = SourcePlace(ord, rb) /\ ra < rb

C20_OrderFixedByInsertionAndConnectionOrder ==
    LET full == get_execution_order(nodes, connections)
    IN  ((Idle \/ run.mode \in {"execute", "execute_node"}) /\ full.ok) =>
            /\ Idle =>
                   \A a \in NodeIds, b \in NodeIds :
                       a # b => (IndexIn(full.order, a) < IndexIn(full.order, b)
                                     <=> ComesBefore(full.order, a, b))
            /\ (run.pc # "idle" /\ run.mode = "execute")
                   => run.execution_order = full.order
            /\ (run.pc # "idle" /\ run.mode = "execute_node" /\ run.target \in NodeIds)
                   => run.execution_order =
                          SelectSeq(full.order,
                                    LAMBDA id : id \in ReachBack(run.target) \cup {run.target})

\* a run visited two steps released by the same source in the order of their
\* connections in the list, which is not the order of their insertion
C20_Witness ==
    /\ Returned("execute")
    /\ Len(Executed) = 3
    /\ \E i \in DOMAIN connections, j \in DOMAIN connections :
           /\ i < j
           /\ connections[i].from_node = connections[j].from_node
           /\ connections[i].to_node # connections[j].to_node
           /\ IndexIn(KeyOrder, connections[i].to_node) > IndexIn(KeyOrder, connections[j].to_node)
           /\ IndexIn(Executed, connections[i].to_node) < IndexIn(Executed, connections[j].to_node)

\* C14: over add_node, remove_node and save/load round trips the id counter
\* never decreases, no step ever holds an id above the counter, and a
\* successful add_node returns an id above the counter it found: an id that
\* no step holds and no step held before
C14_Step ==
    /\ node_counter' >= node_counter
    /\ (Idle /\ outcome'.op = "add_node" /\ outcome'.kind = "return") =>
           /\ outcome'.node_id > node_counter
           /\ outcome'.node_id \notin NodeIds
           /\ outcome'.node_id \in {nodes'[k].node_id : k \in DOMAIN nodes'}

C14_IdsNeverReused ==
    /\ [](\A id \in NodeIds : id <= node_counter)
    /\ [][C14_Step]_vars

\* a round trip of a workflow whose newest id is no longer held by a step
C14_Witness ==
    /\ outcome.op = "round_trip"
    /\ outcome.kind = "return"
    /\ Len(nodes) >= 1
    /\ node_counter >= 2
    /\ node_counter \notin NodeIds

\* C16: a workflow built through the mutation API (every step type
\* registered) comes back from load(save(w)) with the same step ids, each
\* with the same type, configuration and position, the same connection list
\* in the same order and the same global parameters
\* what the claim compares of a step
AsSaved(node) ==
    [node_id |-> node.node_id, node_type |-> node.node_type,
     config |-> node.config, position |-> node.position]

C16_Step ==
    (Idle /\ outcome'.op = "round_trip") =>
        /\ outcome'.kind = "return"
        /\ {AsSaved(nodes'[k]) : k \in DOMAIN nodes'} = {AsSaved(nodes[k]) : k \in DOMAIN nodes}
        /\ Len(nodes') = Len(nodes)
        /\ connections' = connections
        /\ global_params' = global_params

C18_LogInOrder ==
    \A k \in DOMAIN calls :
        /\ calls[k].call = "validate" =>
               /\ k > 1
               /\ calls[k - 1].call = "set_context"
               /\ calls[k - 1].node_id = calls[k].node_id
               /\ calls[k].context = calls[k - 1].context
        /\ calls[k].call = "execute" =>
               /\ k > 2
               /\ calls[k - 1].call = "validate"
               /\ calls[k - 1].node_id = calls[k].node_id
               /\ calls[k].context = calls[k - 1].context

C18_Step ==
    (run.pc = "executing" /\ Len(calls') > Len(calls)) =>
        /\ calls'[Len(calls) + 1].call = "set_context"
        /\ calls'[Len(calls) + 1].node_id = run.execution_order[run.i]
        /\ \A k \in (Len(calls) + 1)..Len(calls') :
               calls'[k].call \in {"set_context", "validate", "execute"}
                   => calls'[k].context = global_params

C18_ContextSetBeforeValidateAndExecute ==
    /\ []C18_LogInOrder
    /\ [][C18_Step]_vars

\* a run of execute during which the global parameters changed: a step saw
\* a table that differs from the one an earlier step saw
C18_Witness ==
    /\ Returned("execute")
    /\ \E j \in DOMAIN calls, k \in DOMAIN calls :
           /\ j < k
           /\ calls[j].call = "execute"
           /\ calls[k].call = "execute"
           /\ calls[j].context # EmptyDict
           /\ calls[k].context # EmptyDict
           /\ calls[j].context # calls[k].context

\* C19: get_param(key, default) never fails; for a string-valued entry every
\* {name} whose name is a key of the current context of the step is replaced
\* by that context value, every placeholder whose name is not in the context
\* is left as written, and a value that is not a string is returned unchanged
\* the entry with each placeholder of a context key replaced by that value
RECURSIVE Expand(_, _)
Expand(val, context) ==
    IF val = <<>> THEN <<>>
    ELSE LET here == {k \in DOMAIN context :
                         /\ Len(Placeholder(context[k].key)) <= Len(val)
                         /\ SubSeq(val, 1, Len(Placeholder(context[k].key)))
                                = Placeholder(context[k].key)}
         IN  IF here = {}
             THEN <<val[1]>> \o Expand(Tail(val), context)
             ELSE LET k == CHOOSE j \in here : TRUE
                  IN  PyStr(context[k].value)
                          \o Expand(SubSeq(val, Len(Placeholder(context[k].key)) + 1, Len(val)),
                                    context)

C19_GetParamSubstitutesContextValues ==
    outcome.op = "get_param" =>
        LET node == NodeOf(outcome.node_id)
            val  == DictGet(node.config, outcome.key, outcome.default)
        IN  /\ outcome.kind = "return"
            /\ outcome.ret = IF isinstance_str(val)
                             THEN StrVal(Expand(val.str, node.context))
                             ELSE val

\* C22: remove_connection of a connection that is not in the list changes
\* nothing; remove_connection of one that is in the list takes out that one
\* entry and after it the connection is not in the list, so that removing it
\* again is the first case; the other connections keep their order, and no
\* step, counter or parameter changes
C22_Step ==
    (Idle /\ outcome'.op = "remove_connection") =>
        /\ nodes' = nodes
        /\ node_counter' = node_counter
        /\ global_params' = global_params
        /\ IF outcome'.found
           THEN /\ Len(connections') = Len(connections) - 1
                /\ \E k \in DOMAIN connections :
                       /\ \A j \in DOMAIN connections' :
                              connections'[j] = IF j < k THEN connections[j]
                                                ELSE connections[j + 1]
                       /\ \A j \in DOMAIN connections' : connections'[j] # connections[k]
           ELSE connections' = connections

C22_RemoveConnectionIdempotent == [][C22_Step]_vars

\* a connection that is not in the list was removed from a workflow that
\* holds another one
C22_Witness ==
    /\ outcome.op = "remove_connection"
    /\ ~outcome.found
    /\ Len(connections) >= 1
    /\ Len(nodes) >= 2

\* C29: an add_node that raises (type not registered) leaves the node dict,
\* the connection list and the global parameters as they were and still
\* advances the id counter by one, as every add_node does; a successful
\* add_node stores its step under the counter it found plus one, so the id
\* minted for the failed call is never given to a step, and no two steps
\* ever hold the same id
C29_Step ==
    (Idle /\ outcome'.op = "add_node") =>
        /\ node_counter' = node_counter + 1
        /\ connections' = connections
        /\ global_params' = global_params
        /\ outcome'.kind = "raise" =>
               /\ nodes' = nodes
               /\ node_counter' \notin {nodes'[k].node_id : k \in DOMAIN nodes'}
        /\ outcome'.kind = "return" =>
               /\ outcome'.node_id = node_counter'
               /\ {nodes'[k].node_id : k \in DOMAIN nodes'} = NodeIds \cup {node_counter'}

C29_FailedAddNodeBurnsAnId ==
    /\ [](\A j \in DOMAIN nodes, k \in DOMAIN nodes : nodes[j].node_id = nodes[k].node_id => j = k)
    /\ [][C29_Step]_vars

\* the last of several add_node calls raised: every id minted before it is
\* held by a step, the id minted for it is not
C29_Witness ==
    /\ outcome.op = "add_node"
    /\ outcome.kind = "raise"
    /\ node_counter >= 3
    /\ NodeIds = 1..(node_counter - 1)

\* C30: the value get_param returns is the same for every order in which the
\* entries of the context of the step may be iterated: it is a function of
\* the configured value and of the context as a mapping
\* the dicts that hold the items of context in another insertion order
Reorderings(context) ==
    {[k \in DOMAIN context |-> context[p[k]]] :
        p \in {q \in [DOMAIN context -> DOMAIN context] :
                  \A i \in DOMAIN context, j \in DOMAIN context : q[i] = q[j] => i = j}}

C30_GetParamIgnoresContextOrder ==
    outcome.op = "get_param" =>
        LET node == NodeOf(outcome.node_id)
        IN  \A context \in Reorderings(node.context) :
                GetParam([node EXCEPT !.context = context], outcome.key, outcome.default)
                    = outcome.ret

\* C21: the progress callback is called once after each step that executed
\* without error and after no other: its call follows the return of execute
\* of that step at once, with the place of the step in the order of the run
\* as index, the number of steps included in the run (for a partial run the
\* target and its ancestors) as total, and the name and id of the step; a
\* run that returns has called it total times, with index 1, 2, ..., total
Shown(log) == SelectSeq(log, LAMBDA c : c.call = "progress")

C21_Step ==
    /\ (run.pc = "executing" /\ calls' # calls) =>
           LET node_id   == run.execution_order[run.i]
               fresh     == SubSeq(calls', Len(calls) + 1, Len(calls'))
               succeeded == /\ node_id \in DOMAIN run'.results
                            /\ run'.results[node_id].success
           IN  /\ SubSeq(calls', 1, Len(calls)) = calls
               /\ IF succeeded
                  THEN /\ Shown(fresh) =
                              <<[call |-> "progress", node_id |-> node_id,
                                 index |-> Len(Shown(calls)) + 1,
                                 total |-> Cardinality(Included),
                                 node_name |-> node_name(NodeOf(node_id))]>>
                       /\ fresh[Len(fresh)].call = "progress"
                       /\ fresh[Len(fresh) - 1].call = "execute"
                       /\ fresh[Len(fresh) - 1].node_id = node_id
                       /\ Len(Shown(calls)) + 1 = run.i
                  ELSE Shown(fresh) = <<>>
    /\ (run.pc = "executing" /\ outcome'.kind = "return") =>
           /\ Len(Shown(calls')) = Cardinality(Included)
           /\ \A k \in DOMAIN Shown(calls') :
                  /\ Shown(calls')[k].index = k
                  /\ Shown(calls')[k].node_id = run.execution_order[k]

C21_ProgressAfterEachExecutedStep == [][C21_Step]_vars

\* a partial run that leaves a step out has returned: the callback was
\* called for the last time with index 2 of 2, in a workflow of three steps
C21_Witness ==
    /\ Returned("execute_node")
    /\ Len(nodes) = 3
    /\ calls[Len(calls)].call = "progress"
    /\ calls[Len(calls)].index = 2
    /\ calls[Len(calls)].total = 2

\* C23: a run, full or partial, of a workflow in which a connection names a
\* step that is not in the node dict (a workflow opened from a file whose
\* connections load appended unchecked) ends in an exception raised before
\* the loop: no step has been given a context, validated or executed, the
\* callback has not been called and there is no result
Dangling ==
    \E k \in DOMAIN connections :
        connections[k].from_node \notin NodeIds \/ connections[k].to_node \notin NodeIds

C23_DanglingConnectionAbortsRun ==
    (Dangling /\ run.pc # "idle" /\ run.mode \in RunOps) =>
        /\ run.pc = "finished"
        /\ outcome.op = run.mode
        /\ outcome.kind = "raise"
        /\ outcome.exc \in {"KeyError", "ValueError"}
        /\ outcome.node_id = 0
        /\ calls = NoCalls
        /\ run.results = EmptyMap
        /\ run.node_outputs = EmptyMap

\* a partial run was asked for a step that is there, in a workflow opened
\* from a file with a connection from a step that is not, and raised KeyError
C23_Witness ==
    /\ Dangling
    /\ run.pc = "finished"
    /\ outcome.op = "execute_node"
    /\ outcome.target \in NodeIds
    /\ outcome.exc = "KeyError"

\* C25: a run starts with an empty node_outputs map and an empty result map;
\* every entry of the two maps is of a step that execute was called on in
\* this run, every input handed to a step is an output that a step executed
\* earlier in this run produced, and a partial run that returns has executed
\* the target and each of its ancestors, whatever ran before it
C25_NothingCarriedBetweenRuns ==
    (run.pc # "idle" /\ run.mode \in RunOps) =>
        /\ calls = NoCalls => (run.node_outputs = EmptyMap /\ run.results = EmptyMap)
        /\ DOMAIN run.node_outputs \subseteq Range(Executed)
        /\ DOMAIN run.results \subseteq Range(Executed)
        /\ \A k \in DOMAIN calls :
               calls[k].call = "execute" =>
                   \A p \in DOMAIN calls[k].input_data :
                       \E j \in 1..(k - 1), c \in DOMAIN connections :
                           /\ calls[j].call = "execute"
                           /\ connections[c].from_node = calls[j].node_id
                           /\ connections[c].to_node = calls[k].node_id
                           /\ connections[c].to_port = p
                           /\ calls[j].node_id \in DOMAIN run.node_outputs
                           /\ connections[c].from_port \in DOMAIN run.node_outputs[calls[j].node_id]
                           /\ calls[k].input_data[p] =
                                  run.node_outputs[calls[j].node_id][connections[c].from_port]
        /\ Returned("execute_node") =>
               Range(Executed) = get_ancestors(connections, run.target) \cup {run.target}

\* a partial run has executed the ancestor of its target again and not yet
\* reached the target, which still holds the context an earlier run gave it
C25_Witness ==
    /\ run.pc = "executing"
    /\ run.mode = "execute_node"
    /\ Len(run.execution_order) = 2
    /\ Executed = <<run.execution_order[1]>>
    /\ run.target \notin Range(Validated)
    /\ NodeOf(run.target).context # EmptyDict
    /\ NodeOf(run.target).context # global_params


\* ----------------------------------------------------------------------- C26
\* the steps of the order of the run that are no longer in the workflow
Removed ==
    IF "execution_order" \in DOMAIN run
    THEN {n \in Range(run.execution_order) : n \notin NodeIds}
    ELSE {}

InLoop == run.pc \in {"executing", "in_step"}

C26_Step ==
    /\ InLoop =>
           /\ \A k \in DOMAIN calls' : k > Len(calls) => calls'[k].node_id \in NodeIds
           /\ run'.execution_order = run.execution_order
    /\ (/\ run.pc = "executing"
        /\ run' # run
        /\ run.i <= Len(run.execution_order)
        /\ run.execution_order[run.i] \in Removed) =>
           /\ run'.pc = "finished"
           /\ outcome'.kind = "raise"
           /\ outcome'.exc = "KeyError"
           /\ outcome'.node_id = run.execution_order[run.i]
           /\ calls' = calls

\* C26: a step removed from the workflow by the progress callback before the
\* run in progress reached it is never validated or executed by that run:
\* the order computed before the first step is kept, and when the turn of the
\* removed step comes the run ends by raising a KeyError that names it; so a
\* run that returns has executed every step of its order
C26_RemovedStepAbortsRun ==
    /\ [](\A op \in RunOps : Returned(op) =>
              Range(run.execution_order) \subseteq Range(Executed))
    /\ [][C26_Step]_vars

C26_Witness ==
    /\ run.pc = "finished"
    /\ outcome.kind = "raise"
    /\ outcome.exc = "KeyError"
    /\ outcome.node_id \in Removed
    /\ outcome.node_id \notin Range(Validated)
    /\ Len(Executed) >= 1
    /\ Removed \cap Range(Executed) # {}


\* ----------------------------------------------------------------------- C24
\* the state of step n in the run r whose outcome is o
StepStateOf(r, o, n) ==
    IF n \in DOMAIN r.results
    THEN IF r.results[n].success THEN "Success" ELSE "Error"
    ELSE IF r.pc = "finished" /\ o.kind = "raise" /\ o.exc = "ValueError" /\ o.node_id = n
    THEN "Error"
    ELSE IF r.pc = "in_step" /\ r.execution_order[r.i] = n
    THEN "Running"
    ELSE "Pending"

\* the state of the run r whose outcome is o; "None" outside a run
RunStateOf(r, o) ==
    IF r.pc = "ordering" THEN "Ordering"
    ELSE IF r.pc \in {"executing", "in_step"} THEN "Executing"
    ELSE IF r.pc = "finished" /\ r.mode \in RunOps
    THEN IF o.kind = "return" THEN "Completed" ELSE "Aborted"
    ELSE "None"

StepMoves ==
    {<<"Pending", "Pending">>, <<"Pending", "Running">>, <<"Running", "Running">>,
     <<"Running", "Success">>, <<"Running", "Error">>,
     <<"Success", "Success">>, <<"Error", "Error">>}

\* the moves of a run as the state machine of the specification draws them
RunMoves ==
    {<<"None", "None">>, <<"None", "Ordering">>, <<"Ordering", "Ordering">>,
     <<"Ordering", "Executing">>, <<"Executing", "Executing">>,
     <<"Executing", "Completed">>, <<"Executing", "Aborted">>,
     <<"Completed", "Completed">>, <<"Aborted", "Aborted">>,
     <<"Completed", "None">>, <<"Aborted", "None">>}

\* the steps of the run in progress or just over
StepsOfRun(r) == IF "execution_order" \in DOMAIN r THEN Range(r.execution_order) ELSE {}

\* every step of the run makes a move of StepMoves
C24_StepsMove ==
    (RunStateOf(run, outcome) \in {"Executing", "Completed", "Aborted"}
        /\ RunStateOf(run', outcome') \in {"Executing", "Completed", "Aborted"}) =>
           /\ StepsOfRun(run') = StepsOfRun(run)
           /\ \A n \in StepsOfRun(run) :
                  <<StepStateOf(run, outcome, n), StepStateOf(run', outcome', n)>> \in StepMoves

\* at most one step is Running; the steps before it in the order are in
\* Success and the steps after it are Pending; a step in Error ends the run
C24_OneAtATime ==
    RunStateOf(run, outcome) \in {"Executing", "Completed", "Aborted"} =>
        /\ Cardinality({n \in StepsOfRun(run) : StepStateOf(run, outcome, n) = "Running"}) <= 1
        /\ \A k \in DOMAIN run.execution_order :
               /\ k < run.i => StepStateOf(run, outcome, run.execution_order[k]) = "Success"
               /\ k > run.i => StepStateOf(run, outcome, run.execution_order[k]) = "Pending"
        /\ (\E n \in StepsOfRun(run) : StepStateOf(run, outcome, n) = "Error") =>
               RunStateOf(run, outcome) = "Aborted"
        /\ RunStateOf(run, outcome) = "Completed" =>
               \A n \in StepsOfRun(run) : StepStateOf(run, outcome, n) = "Success"

\* the caller holds an outcome of a run only when the run is over
C24_Atomic ==
    (outcome.op \in RunOps /\ outcome.kind \in {"return", "raise"}) =>
        RunStateOf(run, outcome) \in {"Completed", "Aborted"}

\* the run makes a move of RunMoves
C24_RunMoves == <<RunStateOf(run, outcome), RunStateOf(run', outcome')>> \in RunMoves

\* the run makes a move of RunMoves or is Aborted while Ordering, no step reached
C24_RunMovesOrAbortedOrdering ==
    \/ C24_RunMoves
    \/ /\ RunStateOf(run, outcome) = "Ordering"
       /\ RunStateOf(run', outcome') = "Aborted"
       /\ outcome'.node_id = 0
       /\ calls' = NoCalls
       /\ \A n \in NodeIds : StepStateOf(run', outcome', n) = "Pending"

\* C24 as stated: within one run every step of the order moves only
\* Pending -> Running -> Success or Error and never leaves Success or Error,
\* at most one step is Running at any time, and the run moves only
\* Ordering -> Executing -> Completed or Aborted: it is Aborted only from
\* Executing.
C24_RunStateMachine ==
    /\ [](C24_OneAtATime /\ C24_Atomic)
    /\ [][C24_StepsMove]_vars
    /\ [][C24_RunMoves]_vars

\* C24 amended: as above, and a run whose order cannot be computed (a cycle,
\* a target that is not a step) moves from Ordering to Aborted with every
\* step still Pending; no run leaves Completed or Aborted but by returning to
\* its caller, and none goes back from Executing to Ordering.
C24_RunStateMachineOrAbortedOrdering ==
    /\ [](C24_OneAtATime /\ C24_Atomic)
    /\ [][C24_StepsMove]_vars
    /\ [][C24_RunMovesOrAbortedOrdering]_vars

\* a run of three steps aborted at its second step: one step in Success, one
\* in Error, one still Pending
C24_Witness ==
    /\ RunStateOf(run, outcome) = "Aborted"
    /\ Len(run.execution_order) = 3
    /\ StepStateOf(run, outcome, run.execution_order[1]) = "Success"
    /\ StepStateOf(run, outcome, run.execution_order[2]) = "Error"
    /\ StepStateOf(run, outcome, run.execution_order[3]) = "Pending"


\* ----------------------------------------------------------------------- C27
\* what bounds the turns still to come: the ids not yet visited, the ids not
\* yet in the result, the steps not yet reached
C27_Bounded ==
    /\ run.pc = "ancestors" =>
           /\ run.visited \subseteq NodeIds
           /\ Range(run.queue) \subseteq run.visited
           /\ \A j \in DOMAIN run.queue, k \in DOMAIN run.queue :
                  run.queue[j] = run.queue[k] => j = k
    /\ run.pc = "kahn" =>
           /\ Range(run.queue) \cup Range(run.result) \subseteq NodeIds
           /\ Range(run.queue) \cap Range(run.result) = {}
           /\ Len(run.queue) + Len(run.result) <= Len(nodes)
           /\ \A id \in NodeIds : run.in_degree[id] >= 0
    /\ run.pc = "executing" =>
           /\ Len(run.execution_order) <= Len(nodes)
           /\ run.i <= Len(run.execution_order) + 1

\* C27: on every workflow built through add_node and add_connection, with
\* cycles, self-loops and several connections between the same two steps, a
\* call of get_ancestors, get_execution_order, execute or execute_node that
\* has started comes to its return or its raise, each validate and execute
\* returning or raising; every loop is bounded by the number of steps
C27_EveryCallTerminates ==
    /\ []C27_Bounded
    /\ (run.pc \in {"ancestors", "kahn", "executing"}) ~> (run.pc = "finished")

\* get_ancestors returned on a workflow with a cycle through two steps and
\* two connections between the same two steps
C27_Witness ==
    /\ run.pc = "finished"
    /\ outcome.op = "get_ancestors"
    /\ outcome.kind = "return"
    /\ outcome.target \in outcome.ancestors \/ outcome.target \in ReachBack(outcome.target)
    /\ \E j \in DOMAIN connections, k \in DOMAIN connections :
           /\ j # k
           /\ connections[j].from_node = connections[k].from_node
           /\ connections[j].to_node = connections[k].to_node


\* ----------------------------------------------------------------------- C28
\* the ids a caller may name: the steps and one id that is not a step
NamedIds == NodeIds \cup {node_counter + 1}

\* add_connection called with these arguments returns ret
Answers(from_node, from_port, to_node, to_port, ret) ==
    ENABLED (add_connection(from_node, from_port, to_node, to_port) /\ outcome'.ret = ret)

\* C28: called between two operations, add_connection returns a Connection
\* exactly when the two ids are steps, from_port is an output port of the
\* first and to_port an input port of the second, and None otherwise,
\* whatever the connections are: also from a step to itself and when the
\* connection closes a cycle.  A workflow with a cycle is refused only by
\* get_execution_order, with ValueError, before any step is reached.
C28_AddConnectionLooksAtEndsOnly ==
    /\ Idle =>
           \A from_node \in NamedIds, to_node \in NamedIds,
              from_port \in PortNames, to_port \in PortNames :
               LET conn == [from_node |-> from_node, from_port |-> from_port,
                            to_node |-> to_node, to_port |-> to_port]
               IN  /\ Answers(from_node, from_port, to_node, to_port, "Connection")
                          <=> ValidEnds(conn)
                   /\ Answers(from_node, from_port, to_node, to_port, "None")
                          <=> ~ValidEnds(conn)
    /\ (run.pc = "finished" /\ outcome.op = "add_connection" /\ outcome.ret = "Connection") =>
           /\ ValidEnds(outcome.conn)
           /\ connections[Len(connections)] = outcome.conn
    /\ (run.pc = "finished" /\ HasCycle
            /\ outcome.op \in {"get_execution_order", "execute", "execute_node"}) =>
           /\ outcome = Structural(outcome.op, outcome.target, "ValueError")
           /\ calls = NoCalls

\* add_connection has just returned a connection that closes a cycle through
\* two steps
C28_Witness ==
    /\ run.pc = "finished"
    /\ outcome.op = "add_connection"
    /\ outcome.ret = "Connection"
    /\ outcome.conn.from_node # outcome.conn.to_node
    /\ outcome.conn.to_node \in ReachBack(outcome.conn.from_node)
    /\ HasCycle
====
